---- MODULE Spec2Model ----
(***************************************************************************)
(* A model of the write path of bids2table: the buffered parquet writer    *)
(* with its single background flush worker (writer.py, utils.atomicopen),  *)
(* the crawler's aggregation loop (crawler.py) and the processing log with *)
(* the orchestrator's resume logic (logging.py, engine.py).                *)
(***************************************************************************)
EXTENDS Integers, Sequences, FiniteSets, TLC

VARIABLES
    w,        \* the BufferedParquetWriter object and the position of its caller
    tasks,    \* every flush task submitted to a writer's ThreadPoolExecutor
    fs,       \* the files on disk: partition files and '.tmp-*' files
    isdir,    \* the writer prefixes that exist as directories
    alive,    \* FALSE once the process has been killed
    cr,       \* the Crawler: its pool, and the locals of the running crawl
    plog,     \* the lines of the '.proc.json' files under db_dir/_proc, as appended
    rundir,   \* log_dir: the saved paths lists and the worker markers of the runs
    cache,    \* the process-wide lru_cache of logging._exists
    eng,      \* the orchestrator: the configuration and position of the current launch
    hist,     \* the launches that have ended, oldest first
    pt,       \* the path list of a launch and the slices computed for its workers
    tb,       \* a Table under construction and the result of its conversion
    hnd,      \* a Handler, the record its loader produced and the result of the call
    lut,      \* a PatternLUT, the path looked up in it and the items it yielded
    logobj,   \* a ProcessedLog object: its cached dataframe and its last answer
    co        \* a Schema, a DataFrame and the results of coercing it

wvars == <<w, tasks, fs, isdir, alive>>
evars == <<plog, rundir, cache, eng, hist>>
xvars == <<pt, tb, hnd, lut, logobj, co>>
vars == <<w, tasks, fs, isdir, alive, cr, plog, rundir, cache, eng, hist, pt, tb, hnd, lut, logobj, co>>

(***************************************************************************)
(* Bounds                                                                  *)
(***************************************************************************)
MaxWrites == 3
MaxBatchSize == 2
MaxMatches == 3
MaxFailuresLimit == 2
MaxLaunches == 3
MaxPaths == 4
MaxWorkers == 3
MaxMinPerWorker == 3
MaxCrawls == 2
MaxLogWrites == 2
MaxColumns == 2

BatchSizes == 1..MaxBatchSize

(***************************************************************************)
(* writer.py                                                               *)
(***************************************************************************)
\* the partition size of the modelled writer, in the unit of the batch sizes
PartitionSizeBytes == 2

\* a writer prefix: table directory, collection id, worker id
Prefix == <<"table", 0, 0>>

NoPath == [kind |-> "none", prefix |-> <<"", 0, 0>>, inDir |-> FALSE, n |-> 0]

RECURSIVE SumSizes(_)
SumSizes(s) == IF s = <<>> THEN 0 ELSE Head(s).size + SumSizes(Tail(s))

\* pa.Table.get_total_buffer_size of the buffered table
get_total_buffer_size(table) == SumSizes(table)

\* BufferedParquetWriter.path: the path of the current partition
path(wr, dirs) ==
    [kind |-> "part", prefix |-> wr.prefix, inDir |-> (wr.prefix \in dirs),
     n |-> wr.part]

\* BufferedParquetWriter.__init__
NewWriter(prefix, wid) ==
    [prefix |-> prefix, wid |-> wid, table |-> <<>>, future |-> 0, part |-> 0,
     part_batch_start |-> 0, batch_count |-> 0,
     pc |-> "idle", op |-> "none", blocking |-> FALSE,
     exc |-> "none", ret |-> NoPath, raised |-> {}, calls |-> <<>>]

\* Future.running(): the task is being executed right now
running(ts, i) == ts[i].st \in {"running", "written"}

\* Future.done()
finished(ts, i) == ts[i].st \in {"done", "failed", "failed_replace"}

\* the task ended with an exception, which Future.result() raises
failedTask(ts, i) == ts[i].st \in {"failed", "failed_replace"}

\* a call of the writer returns to its caller
Return(wr) ==
    [wr EXCEPT !.pc = IF wr.op = "exit" THEN "closed" ELSE "idle"]

\* a flush that submits its task without moving on to the next partition
submit_keep_part(wr, ts, dirs, blocking) ==
    LET t == [wid |-> wr.wid, table |-> wr.table, path |-> path(wr, dirs),
              st |-> "pending"]
        w1 == [wr EXCEPT !.future = Len(ts) + 1, !.table = <<>>,
                         !.part_batch_start = wr.batch_count,
                         !.blocking = blocking]
    IN [w |-> IF blocking THEN [w1 EXCEPT !.pc = "wait_result"] ELSE Return(w1),
        tasks |-> Append(ts, t)]

\* the tail of flush: submit the flush task, clear the buffer, next partition
submit(wr, ts, dirs, blocking) ==
    LET t == [wid |-> wr.wid, table |-> wr.table, path |-> path(wr, dirs),
              st |-> "pending"]
        w1 == [wr EXCEPT !.future = Len(ts) + 1, !.table = <<>>,
                         !.part = @ + 1,
                         !.part_batch_start = wr.batch_count,
                         !.blocking = blocking]
    IN [w |-> IF blocking THEN [w1 EXCEPT !.pc = "wait_result"] ELSE Return(w1),
        tasks |-> Append(ts, t)]

\* the test of flush that decides whether to wait for the previous task
mustWaitRunning(wr, ts) == wr.future # 0 /\ running(ts, wr.future)

\* BufferedParquetWriter.flush up to its first blocking point
flush(wr, ts, dirs, blocking) ==
    IF wr.table = <<>> THEN [w |-> Return(wr), tasks |-> ts]
    ELSE IF mustWaitRunning(wr, ts)
         THEN [w |-> [wr EXCEPT !.pc = "wait_prev", !.blocking = blocking],
               tasks |-> ts]
         ELSE submit(wr, ts, dirs, blocking)

\* a comparison that starts a flush already at the partition size
overThreshold_inclusive(size) == size >= PartitionSizeBytes

\* the comparison of write that starts a flush
overThreshold(size) == size > PartitionSizeBytes

\* BufferedParquetWriter.write
write(wr, ts, dirs, batch) ==
    LET w1 == [wr EXCEPT !.table = Append(@, batch), !.batch_count = @ + 1,
                         !.op = "write", !.exc = "none"]
        w2 == [w1 EXCEPT !.ret = path(w1, dirs)]
    IN IF overThreshold(get_total_buffer_size(w2.table))
       THEN flush(w2, ts, dirs, FALSE)
       ELSE [w |-> Return(w2), tasks |-> ts]

\* the record of one write call, as its caller sees it: the batch, the path
\* that write computed for it, the size of the buffer with the batch, and
\* whether the call started a flush (submitted a task or began to wait for one)
observe(wr, ts, r, batch) ==
    [r EXCEPT !.w.calls =
        Append(@, [batch |-> batch, ret |-> r.w.ret,
                   size |-> get_total_buffer_size(wr.table) + batch.size,
                   flushed |-> (r.tasks # ts \/ r.w.pc = "wait_prev")])]

\* the flush that __exit__ performs
exitFlush(wr, ts, dirs) == flush(wr, ts, dirs, FALSE)

\* Future.result() returns or raises in the caller blocked in flush
resume(wr, ts, dirs) ==
    IF failedTask(ts, wr.future)
    THEN [w |-> Return([wr EXCEPT !.exc = "task", !.raised = @ \cup {wr.future},
                                  !.ret = NoPath]),
          tasks |-> ts]
    ELSE IF wr.pc = "wait_prev"
         THEN submit(wr, ts, dirs, wr.blocking)
         ELSE [w |-> Return(wr), tasks |-> ts]

(***************************************************************************)
(* utils.atomicopen and BufferedParquetWriter._flush_task                  *)
(***************************************************************************)
Exists(files, p) == \E f \in files : f.path = p

\* an open that writes straight to the destination path
tmpname_inplace(p, i) == p

\* the name of the file that atomicopen opens for writing
tmpname(p, i) == [kind |-> "tmp", prefix |-> p.prefix, inDir |-> p.inDir, n |-> i]

\* tempfile.NamedTemporaryFile(..., delete=False): an empty open file
atomicopen_enter(files, p, i) ==
    {f \in files : f.path # tmpname(p, i)}
        \cup {[path |-> tmpname(p, i), rows |-> <<>>, closed |-> FALSE, src |-> i]}

\* pq.write_table(table, f)
write_table(files, p, i, table) ==
    {f \in files : f.path # tmpname(p, i)}
        \cup {[path |-> tmpname(p, i), rows |-> table, closed |-> FALSE, src |-> i]}

\* the else branch of atomicopen: file.close(); os.replace(file.name, path)
atomicopen_commit(files, p, i) ==
    LET t == CHOOSE f \in files : f.path = tmpname(p, i)
    IN {f \in files : f.path # tmpname(p, i) /\ f.path # p}
        \cup {[path |-> p, rows |-> t.rows, closed |-> TRUE, src |-> i]}

\* the except branch of atomicopen: file.close(); os.remove(file.name)
atomicopen_abort(files, p, i) == {f \in files : f.path # tmpname(p, i)}

\* file.close() succeeded and os.replace raised
atomicopen_replace_fails(files, p, i) ==
    LET t == CHOOSE f \in files : f.path = tmpname(p, i)
    IN {f \in files : f.path # tmpname(p, i)} \cup {[t EXCEPT !.closed = TRUE]}

\* ThreadPoolExecutor(max_workers=1): a task starts when the tasks submitted
\* to the same writer before it have finished
canStart(ts, i) ==
    /\ ts[i].st = "pending"
    /\ \A j \in 1..(i - 1) : ts[j].wid = ts[i].wid => finished(ts, j)

(***************************************************************************)
(* logging.py: ProcessedLog                                                *)
(***************************************************************************)
\* the collection ids of the launches, ordered as their names sort
RunIds == {1, 2}

\* cfg.paths.list after expansion
InputPaths == <<"d1", "d2">>

\* redo_error_rate_threshold: null, or the default 0.25 as a fraction
NoThreshold == [set |-> FALSE, num |-> 0, den |-> 1]
Quarter == [set |-> TRUE, num |-> 1, den |-> 4]
Thresholds == {NoThreshold, Quarter}

Max(a, b) == IF a >= b THEN a ELSE b

\* the position of line i of the log in the concatenation of the files that
\* _load reads in sorted order: by run directory, by worker file, by line
LoadsBefore(lg, i, j) ==
    \/ lg[i].collection_id < lg[j].collection_id
    \/ /\ lg[i].collection_id = lg[j].collection_id
       /\ \/ lg[i].worker_id < lg[j].worker_id
          \/ lg[i].worker_id = lg[j].worker_id /\ i < j

\* ProcessedLog._load: drop_duplicates(subset="path", keep="last")
load(lg) ==
    {lg[i] : i \in {k \in 1..Len(lg) :
                      \A j \in 1..Len(lg) :
                          (j # k /\ lg[j].path = lg[k].path) => LoadsBefore(lg, j, k)}}

\* CrawlCounts.error_rate <= threshold, on the fractions
rate_within(entry, thr) ==
    entry.error * thr.den <= thr.num * Max(entry.total, 1)

\* logging._exists under lru_cache: the cached answer, else the disk
exists_cached(ch, files, p) ==
    IF \E c \in ch : c.p = p THEN (CHOOSE c \in ch : c.p = p).v
    ELSE Exists(files, p)

\* logging._all_exist
all_exist(ch, files, ps) == \A p \in ps : exists_cached(ch, files, p)

\* the cache after the lookups of one filter_paths call
cache_after(ch, files, df, paths) ==
    IF \A i \in 1..Len(paths) : \A e \in df : e.path # paths[i] THEN ch
    ELSE ch \cup {[p |-> q, v |-> Exists(files, q)] :
                    q \in {x \in UNION {e.partitions : e \in
                                  {y \in df : \E i \in 1..Len(paths) : y.path = paths[i]}} :
                              \A c \in ch : c.p # x}}

RECURSIVE SelectSeq2(_, _)
\* paths[mask]
SelectSeq2(paths, mask) ==
    IF paths = <<>> THEN <<>>
    ELSE (IF Head(mask) THEN <<Head(paths)>> ELSE <<>>)
            \o SelectSeq2(Tail(paths), Tail(mask))

\* a filter_paths whose redo mask keeps the successes instead of the failures
redo_of_inverted(success) == success

\* redo_mask[redo_mask] = ~success_mask
redo_of(success) == ~success

\* ProcessedLog.filter_paths(paths, error_rate_threshold)
filter_paths(df, ch, files, paths, thr) ==
    LET entry(i) == CHOOSE e \in df : e.path = paths[i]
        new_mask == [i \in 1..Len(paths) |-> \A e \in df : e.path # paths[i]]
        success_mask == [i \in 1..Len(paths) |->
            /\ ~new_mask[i]
            /\ all_exist(ch, files, entry(i).partitions)
            /\ thr.set => rate_within(entry(i), thr)]
        redo_mask == [i \in 1..Len(paths) |->
            ~new_mask[i] /\ redo_of(success_mask[i])]
        todo_mask == [i \in 1..Len(paths) |-> new_mask[i] \/ redo_mask[i]]
    IN IF \A i \in 1..Len(paths) : new_mask[i] THEN paths
       ELSE SelectSeq2(paths, todo_mask)

\* ProcessedLog.write: one line appended to the worker's file of the run
log_record(collection_id, worker_id, p, counts, partitions) ==
    [collection_id |-> collection_id, worker_id |-> worker_id, path |-> p,
     total |-> counts.total, error |-> counts.error, partitions |-> partitions]

\* ProcessedLog.__init__: _df is None
NewLog == [pc |-> "new", loaded |-> FALSE, df |-> {}, writes |-> 0, out |-> <<>>]

\* the df property: the log is loaded at the first access and kept in _df
log_df(lo, lg) == IF lo.loaded THEN lo ELSE [lo EXCEPT !.loaded = TRUE, !.df = load(lg)]

(***************************************************************************)
(* engine.py: _partition_paths                                             *)
(***************************************************************************)
Min(a, b) == IF a <= b THEN a ELSE b

\* a path list of n distinct paths
PathList(n) == [i \in 1..n |-> i]

\* a share per worker that rounds the quotient down
worker_num_paths_floor(n, num_workers, min_per_worker) ==
    LET k == n \div num_workers
    IN IF min_per_worker # 0 THEN Max(k, min_per_worker) ELSE k

\* worker_num_paths: int(np.ceil(len(paths) / num_workers)), raised to
\* min_per_worker when that is set (0 stands for None)
worker_num_paths(n, num_workers, min_per_worker) ==
    LET k == (n + num_workers - 1) \div num_workers
    IN IF min_per_worker # 0 THEN Max(k, min_per_worker) ELSE k

\* _partition_paths(cfg, paths): the slice of worker_id
partition_paths(paths, worker_id, num_workers, min_per_worker) ==
    LET k == worker_num_paths(Len(paths), num_workers, min_per_worker)
        start == worker_id * k
        stop == Min(Len(paths), start + k)
    IN IF start >= Len(paths) THEN <<>>
       ELSE SubSeq(paths, start + 1, stop)

\* no launch has partitioned a path list
NoPartition == [paths |-> <<>>, num_workers |-> 1, min_per_worker |-> 0, slices |-> {}]

(***************************************************************************)
(* table.py: Table                                                         *)
(***************************************************************************)
\* column_groups: the labels in declaration order, and schema.columns()
Groups == <<"A", "B">>
GroupNames == {Groups[i] : i \in 1..Len(Groups)}
Columns(g) == IF g = "A" THEN <<"a", "b">> ELSE <<"c">>

\* index_names of the tables of the model
IndexNameChoices == {<<"i">>, <<"i", "j">>}

\* constants: None (the default), an empty dict, or a dict of one name
ConstantChoices ==
    {[set |-> FALSE, names |-> <<>>], [set |-> TRUE, names |-> <<>>],
     [set |-> TRUE, names |-> <<"Y">>]}

\* the keys handed to put: tuples, a bare scalar, and a dict of named fields
PutKeys ==
    {[kind |-> "tuple", names |-> <<>>, vals |-> v] :
        v \in {<<1>>, <<1, 2>>, <<2, 1>>}}
      \cup {[kind |-> "scalar", names |-> <<>>, vals |-> <<2>>],
            [kind |-> "dict", names |-> <<"z">>, vals |-> <<1>>]}

\* the column_group arguments handed to put; "D" is not declared
PutGroups == GroupNames \cup {"D"}

\* the records handed to put, as the sets of their field names
PutRecords == {{"c"}, {"a"}, {"a", "b"}}

NoOut == [exc |-> "none", columns |-> <<>>, rows |-> <<>>]

\* Table.__init__
NewTable(index_names, constants) ==
    [pc |-> "open", index_names |-> index_names, constants |-> constants,
     rows |-> [g \in GroupNames |-> <<>>],
     op |-> "init", exc |-> "none", putkeys |-> {}, out |-> NoOut]

\* a _check_key that does not compare the length of a tuple key with
\* index_names
check_key_any_length(key, index_names) ==
    IF key.kind # "tuple" /\ Len(index_names) # 1
    THEN [exc |-> "ValueError", key |-> <<>>]
    ELSE IF key.kind = "dict"
    THEN [exc |-> "TypeError", key |-> <<>>]
    ELSE [exc |-> "none", key |-> key.vals]

\* Table._check_key: the exception it raises, or the key it returns (a key
\* of one field is returned bare, which the model writes as the 1-tuple)
check_key(key, index_names) ==
    IF key.kind = "tuple" /\ Len(key.vals) # Len(index_names)
    THEN [exc |-> "ValueError", key |-> <<>>]
    ELSE IF key.kind # "tuple" /\ Len(index_names) # 1
    THEN [exc |-> "ValueError", key |-> <<>>]
    ELSE IF key.kind = "dict"
    THEN [exc |-> "TypeError", key |-> <<>>]
    ELSE [exc |-> "none", key |-> key.vals]

\* [record.get(col) for col in schema.columns()]
row_of(column_group, record) ==
    [i \in 1..Len(Columns(column_group)) |->
        IF Columns(column_group)[i] \in record THEN "v" ELSE "null"]

\* self._table[column_group][key] = row, on a dict in insertion order
setitem(rows, key, row) ==
    IF \E i \in 1..Len(rows) : rows[i].key = key
    THEN [i \in 1..Len(rows) |->
            IF rows[i].key = key THEN [key |-> key, row |-> row] ELSE rows[i]]
    ELSE Append(rows, [key |-> key, row |-> row])

\* Table.put(key, column_group, record)
Table_put(t, key, column_group, record) ==
    LET ck == check_key(key, t.index_names)
    IN IF ck.exc # "none" THEN [t EXCEPT !.exc = ck.exc]
       ELSE IF column_group \notin GroupNames THEN [t EXCEPT !.exc = "KeyError"]
       ELSE [t EXCEPT !.exc = "none",
                      !.rows[column_group] =
                          setitem(@, ck.key, row_of(column_group, record)),
                      !.putkeys = @ \cup {ck.key}]

\* the order of the index values: tuples compare field by field
LexLess(a, b) ==
    \E i \in 1..Len(a) : a[i] < b[i] /\ \A j \in 1..(i - 1) : a[j] = b[j]

RECURSIVE SortedKeys(_)
SortedKeys(S) ==
    IF S = {} THEN <<>>
    ELSE LET m == CHOOSE x \in S : \A y \in S : x = y \/ LexLess(x, y)
         IN <<m>> \o SortedKeys(S \ {m})

\* df.index.names = self.index_names on the frame of a column group: the
\* frame of a group without rows has a plain index of one level
frame_raises(t, g) == t.rows[g] = <<>> /\ Len(t.index_names) # 1

\* pd.concat(column_tables, axis=1, keys=..., sort=True): the union of the
\* keys in ascending order, each group's cells null where it has no row
concat(t) ==
    LET keys == UNION {{t.rows[g][i].key : i \in 1..Len(t.rows[g])} : g \in GroupNames}
        cells(g, k) ==
            IF \E i \in 1..Len(t.rows[g]) : t.rows[g][i].key = k
            THEN (CHOOSE r \in {t.rows[g][i] : i \in 1..Len(t.rows[g])} : r.key = k).row
            ELSE [i \in 1..Len(Columns(g)) |-> "null"]
        sorted == SortedKeys(keys)
    IN [i \in 1..Len(sorted) |->
          [key |-> sorted[i], cells |-> [g \in GroupNames |-> cells(g, sorted[i])]]]

\* the columns of the concatenated frame, group by group
GroupColumns[n \in 0..Len(Groups)] ==
    IF n = 0 THEN <<>>
    ELSE GroupColumns[n - 1] \o
           [i \in 1..Len(Columns(Groups[n])) |-> <<Groups[n], Columns(Groups[n])[i]>>]

\* df.reset_index(col_level=1, col_fill="_index"): the index columns come first
reset_index(index_names, columns) ==
    [i \in 1..Len(index_names) |-> <<"_index", index_names[i]>>] \o columns

\* for col in reversed(constants): df.insert(0, col, ...)
insert_constants(names, columns) ==
    [i \in 1..Len(names) |-> <<names[i], "">>] \o columns

\* Table.to_pandas: the exception it raises, or the columns and the rows of
\* the frame it returns
to_pandas(t) ==
    IF \E g \in GroupNames : frame_raises(t, g)
    THEN [exc |-> "ValueError", columns |-> <<>>, rows |-> <<>>]
    ELSE IF ~t.constants.set
    THEN [exc |-> "AttributeError", columns |-> <<>>, rows |-> <<>>]
    ELSE IF t.constants.names # <<>>
    THEN [exc |-> "KeyError", columns |-> <<>>, rows |-> <<>>]
    ELSE [exc |-> "none",
          columns |-> insert_constants(t.constants.names,
                          reset_index(t.index_names, GroupColumns[Len(Groups)])),
          rows |-> concat(t)]

NoTable == [pc |-> "none"]

NoHandler == [pc |-> "none"]

NoLUT == [pc |-> "none"]
\* no ProcessedLog object
NoLog == [pc |-> "none"]
\* no coercion
NoCoercion == [pc |-> "none"]

(***************************************************************************)
(* engine.py                                                               *)
(***************************************************************************)
\* what crawl(path) hands to the main loop: it raises, or it returns a table
\* of some size with its counts
CrawlResults ==
    {[raises |-> TRUE, size |-> 0, total |-> 0, error |-> 0],
     [raises |-> FALSE, size |-> 1, total |-> 4, error |-> 1],
     [raises |-> FALSE, size |-> 2, total |-> 4, error |-> 2]}

\* writer_dir of _generate_tables for the one table of the model, worker 0
writer_dir(collection_id) == <<"tab", collection_id, 0>>

NoRun ==
    [pc |-> "none", status |-> "none", collection_id |-> 0,
     filter_completed |-> FALSE, threshold |-> NoThreshold,
     flush_on_error |-> FALSE, dry_run |-> FALSE, newproc |-> FALSE,
     paths |-> <<>>, idx |-> 1, cur |-> [raises |-> FALSE, size |-> 0, total |-> 0, error |-> 0],
     crawled |-> <<>>, logged |-> 0,
     filtered |-> <<>>, expected |-> <<>>, pre |-> FALSE, redo |-> {},
     flushed_on_error |-> FALSE, crawler_closed |-> FALSE,
     worker_id |-> 0, tables_initialized |-> FALSE]

EngineIdle ==
    /\ plog = <<>>
    /\ rundir = [paths_list |-> {}, workers |-> {}]
    /\ cache = {}
    /\ eng = NoRun
    /\ hist = <<>>
    /\ pt = NoPartition
    /\ tb = NoTable
    /\ hnd = NoHandler
    /\ lut = NoLUT
    /\ logobj = NoLog
    /\ co = NoCoercion

(***************************************************************************)
(* crawler.py                                                              *)
(***************************************************************************)
Keys == {"k1", "k2"}

\* what the indexer does with a path: raise, return None, or return a key
IndexerOutcomes == {"raise", "none"} \cup Keys
\* what the handler does with a path: raise, return None, or return a record
HandlerOutcomes == {"raise", "none", "record"}

None == [none |-> TRUE]

\* CrawlCounts()
CrawlCounts == [total |-> 0, process |-> 0, error |-> 0]

\* the handler (its label) that _scan_for_matches pairs with the m-th match
LabelOf(m) == IF m % 2 = 1 THEN "a" ELSE "b"

\* HandlingFailure(path, pattern, handler, exception)
HandlingFailure(m, who) ==
    [path |-> m, pattern |-> LabelOf(m), handler |-> who, exception |-> "exc"]

\* the indexer and handler calls that a task made, in their order
IndexerOnly == <<"indexer">>
IndexerThenHandler == <<"indexer", "handler">>

\* a variant of _process_one that calls the handler after an indexer failure
\* and returns its record next to the failure
process_one_keep_data(m, ix, hd) ==
    IF ix = "none" THEN [m |-> m, data |-> None, err |-> None, calls |-> IndexerOnly]
    ELSE IF hd = "raise"
         THEN [m |-> m, data |-> None, err |-> HandlingFailure(m, "handler"),
               calls |-> IndexerThenHandler]
         ELSE [m |-> m,
               data |-> IF hd = "none" THEN None
                        ELSE [key |-> IF ix = "raise" THEN "k1" ELSE ix, record |-> m],
               err |-> IF ix = "raise" THEN HandlingFailure(m, "indexer") ELSE None,
               calls |-> IndexerThenHandler]

\* Crawler._process_one, with the task function's handler: (handler, data, err),
\* and the calls it made
process_one(m, ix, hd) ==
    LET keyerr == IF ix = "raise" THEN HandlingFailure(m, "indexer") ELSE None
        key == IF ix \in Keys THEN ix ELSE "none"
    IN IF key = "none"
       THEN [m |-> m, data |-> None, err |-> keyerr, calls |-> IndexerOnly]
       ELSE IF hd = "raise"
            THEN [m |-> m, data |-> None, err |-> HandlingFailure(m, "handler"),
                  calls |-> IndexerThenHandler]
            ELSE [m |-> m,
                  data |-> IF hd = "none" THEN None
                           ELSE [key |-> key, record |-> m],
                  err |-> None, calls |-> IndexerThenHandler]

\* the test of crawl that aborts it, without the guard for an unset limit
max_failures_reached_unguarded(max_failures, errors) ==
    Len(errors) >= max_failures

\* the test of crawl that aborts it: max_failures = 0 stands for None
max_failures_reached(max_failures, errors) ==
    max_failures # 0 /\ Len(errors) >= max_failures

\* IncrementalTable.put(key, record, label): the cells of the row of key under
\* the label take the values of the record
put(table, key, record, label) ==
    {c \in table : ~(c.key = key /\ c.label = label)}
        \cup {[key |-> key, label |-> label, val |-> record]}

\* IncrementalTable.as_table(): one row per key that was put, the cells of a
\* label without a record for the key null
as_table(table) ==
    {[key |-> k,
      cells |-> [l \in {"a", "b"} |->
                   IF \E c \in table : c.key = k /\ c.label = l
                   THEN [filled |-> TRUE,
                         val |-> (CHOOSE c \in table : c.key = k /\ c.label = l).val]
                   ELSE [filled |-> FALSE, val |-> 0]]] :
        k \in {c.key : c \in table}}

\* a loop body that starts the tables afresh when a result carries a failure
aggregate_clear_on_error(c, val) ==
    LET counts1 == [c.counts EXCEPT !.total = @ + 1]
        hasdata == val.data # None
        haserr == val.err # None
        tables1 == IF haserr THEN {}
                   ELSE IF hasdata
                   THEN put(c.tables, val.data.key, val.data.record, LabelOf(val.m))
                   ELSE c.tables
        counts2 == IF hasdata THEN [counts1 EXCEPT !.process = @ + 1] ELSE counts1
        errors1 == IF haserr THEN Append(c.errors, val.err) ELSE c.errors
        counts3 == IF haserr THEN [counts2 EXCEPT !.error = @ + 1] ELSE counts2
    IN [c EXCEPT !.counts = counts3, !.tables = tables1, !.errors = errors1,
                 !.consumed = @ \cup {val.m},
                 !.pc = IF haserr /\ max_failures_reached(c.max_failures, errors1)
                        THEN "raised" ELSE "running"]

\* a loop body that counts every result as processed
aggregate_count_all(c, val) ==
    LET counts1 == [c.counts EXCEPT !.total = @ + 1]
        hasdata == val.data # None
        tables1 == IF hasdata
                   THEN put(c.tables, val.data.key, val.data.record, LabelOf(val.m))
                   ELSE c.tables
        counts2 == [counts1 EXCEPT !.process = @ + 1]
        haserr == val.err # None
        errors1 == IF haserr THEN Append(c.errors, val.err) ELSE c.errors
        counts3 == IF haserr THEN [counts2 EXCEPT !.error = @ + 1] ELSE counts2
    IN [c EXCEPT !.counts = counts3, !.tables = tables1, !.errors = errors1,
                 !.consumed = @ \cup {val.m},
                 !.pc = IF haserr /\ max_failures_reached(c.max_failures, errors1)
                        THEN "raised" ELSE "running"]

\* the body of the loop of crawl for one result of the pool
aggregate(c, val) ==
    LET counts1 == [c.counts EXCEPT !.total = @ + 1]
        hasdata == val.data # None
        tables1 == IF hasdata
                   THEN put(c.tables, val.data.key, val.data.record, LabelOf(val.m))
                   ELSE c.tables
        counts2 == IF hasdata THEN [counts1 EXCEPT !.process = @ + 1] ELSE counts1
        haserr == val.err # None
        errors1 == IF haserr THEN Append(c.errors, val.err) ELSE c.errors
        counts3 == IF haserr THEN [counts2 EXCEPT !.error = @ + 1] ELSE counts2
    IN [c EXCEPT !.counts = counts3, !.tables = tables1, !.errors = errors1,
                 !.consumed = @ \cup {val.m},
                 !.pc = IF haserr /\ max_failures_reached(c.max_failures, errors1)
                        THEN "raised" ELSE "running"]

\* a task function that puts its record into the table itself
taskfn_puts(c, m, ix, hd) ==
    LET val == process_one(m, ix, hd)
    IN [c EXCEPT !.results = @ \cup {val},
                 !.ran = @ \cup {[m |-> m, ix |-> ix, hd |-> hd]},
                 !.tables = IF val.data # None
                            THEN put(@, val.data.key, val.data.record, LabelOf(m))
                            ELSE @]

\* taskfn(match) on a thread of the pool: what it leaves behind is its return
\* value, which the pool hands to the iterator of imap_unordered
taskfn(c, m, ix, hd) ==
    [c EXCEPT !.results = @ \cup {process_one(m, ix, hd)},
              !.ran = @ \cup {[m |-> m, ix |-> ix, hd |-> hd]}]

\* Crawler.__init__
NewCrawler(max_failures) ==
    [max_failures |-> max_failures, pc |-> "idle", n |-> 0, scanned |-> 0,
     ran |-> {}, results |-> {}, consumed |-> {}, counts |-> CrawlCounts, errors |-> <<>>,
     tables |-> {}, final |-> {}, root |-> "none", dirpath |-> "none",
     table_dir |-> "none", crawls |-> 0, stale |-> 0]

\* indexer.set_root(dirpath) for every indexer of the crawler
set_root(c, dirpath) == [c EXCEPT !.root = dirpath]

\* tables that are built once and kept from one crawl to the next
new_tables_kept(c, dirpath) ==
    [c EXCEPT !.tables = IF c.crawls = 0 THEN {} ELSE @,
              !.table_dir = IF c.crawls = 0 THEN dirpath ELSE @]

\* Crawler._new_tables(dirpath): one empty table per table name, with the
\* constant _dir = dirpath
new_tables(c, dirpath) == [c EXCEPT !.tables = {}, !.table_dir = dirpath]

\* crawl(dirpath) from its entry to the call of imap_unordered: set_root, the
\* new tables, the counts and the failure list; n is the number of matches the
\* scan of dirpath is going to yield
crawl_enter(c, dirpath, n) ==
    LET c1 == new_tables(set_root(c, dirpath), dirpath)
    IN [c1 EXCEPT !.pc = "running", !.dirpath = dirpath, !.n = n,
                  !.counts = CrawlCounts, !.errors = <<>>, !.crawls = @ + 1]

(***************************************************************************)
(* handlers/handler.py: Handler                                            *)
(***************************************************************************)
\* the field names of the schemas of the modelled handlers
SchemaChoices == {{"a", "b"}, {"a", "b", "c"}}

\* overlap_threshold: None, the default 0.5, or 1.0, as fractions
OverlapThresholds ==
    {[set |-> FALSE, num |-> 0, den |-> 1], [set |-> TRUE, num |-> 1, den |-> 2],
     [set |-> TRUE, num |-> 1, den |-> 1]}

\* what _load does with a path: raise, return None, or return a record,
\* given as the set of its field names
LoadOutcomes ==
    {[kind |-> "raise", fields |-> {}], [kind |-> "none", fields |-> {}]}
      \cup {[kind |-> "record", fields |-> f] : f \in SUBSET {"a", "b", "c", "x"}}

\* cast_to_schema(record, schema, with_null=False): the fields of the schema
\* that the record has
cast_to_schema(fields, schema) == fields \cap schema

\* overlap < bound for overlap = |record & schema| / |schema|
overlap_below(fields, schema, bound) ==
    Cardinality(fields \cap schema) * bound.den < bound.num * Cardinality(schema)

\* Handler.__call__ (without a rename map): it raises what _load raises,
\* returns None, or returns a record
handler_call(schema, threshold, loaded) ==
    IF loaded.kind # "record" THEN loaded
    ELSE IF loaded.fields = {} THEN loaded
    ELSE IF /\ overlap_below(loaded.fields, schema, [num |-> 1, den |-> 1])
            /\ threshold.set
            /\ overlap_below(loaded.fields, schema, threshold)
         THEN [kind |-> "none", fields |-> {}]
         ELSE [kind |-> "record", fields |-> cast_to_schema(loaded.fields, schema)]

\* Handler.__init__, with the outcome that _load is going to have
NewHandler(schema, threshold, loaded) ==
    [pc |-> "ready", schema |-> schema, overlap_threshold |-> threshold,
     loaded |-> loaded, result |-> [kind |-> "none", fields |-> {}],
     val |-> [m |-> 0, data |-> None, err |-> None, calls |-> <<>>]]

(***************************************************************************)
(* utils.py: PatternLUT                                                    *)
(***************************************************************************)
MaxItems == 2

\* a pattern or a path is the sequence of its characters; the character
\* class [ab] of a pattern is written as one element
CharClass == "[ab]"
ClassOf(c) == {"a", "b"}

\* the patterns of the lookup tables of the model
LutPatterns ==
    {<<"*", ".", "t">>, <<"*", "_", "b", ".", "t">>, <<"b", "*">>,
     <<"f", "/", "*", ".", "g">>, <<"a", "?">>, <<CharClass>>}

\* the paths that are looked up, as Path(path) holds them
LutPaths ==
    {<<"a", ".", "t">>, <<"b", "/", "a", ".", "t">>, <<"b", ".", "t">>,
     <<"a", "_", "b", ".", "t">>, <<"b">>, <<"b", "_", "b">>, <<"a", "b">>,
     <<"f", "/", "a", ".", "g">>, <<"f", "/", "a", "/", "b", ".", "g">>,
     <<"b", "/", "f", "/", "a", ".", "g">>, <<"r">>}

\* str.rfind: the last position of c in s, 0 when s does not hold it
rfind(s, c) ==
    IF \E i \in 1..Len(s) : s[i] = c
    THEN CHOOSE i \in 1..Len(s) : s[i] = c /\ \A j \in (i + 1)..Len(s) : s[j] # c
    ELSE 0

\* PurePath.name: the last component of the path
name(p) == SubSeq(p, rfind(p, "/") + 1, Len(p))

\* PurePath.suffix: the name from its last dot on, unless that dot starts or
\* ends the name
suffix(p) ==
    LET n == name(p)
        i == rfind(n, ".")
    IN IF 1 < i /\ i < Len(n) THEN SubSeq(n, i, Len(n)) ELSE <<>>

RECURSIVE fnmatch(_, _)
\* fnmatch.fnmatch(query, pattern) on a posix system: '*' stands for any
\* characters, '?' for one, a class for one of its characters
fnmatch(q, pat) ==
    IF pat = <<>> THEN q = <<>>
    ELSE IF Head(pat) = "*"
         THEN fnmatch(q, Tail(pat)) \/ (q # <<>> /\ fnmatch(Tail(q), pat))
    ELSE IF q = <<>> THEN FALSE
    ELSE IF Head(pat) = "?" THEN fnmatch(Tail(q), Tail(pat))
    ELSE IF Head(pat) = CharClass
         THEN Head(q) \in ClassOf(Head(pat)) /\ fnmatch(Tail(q), Tail(pat))
    ELSE Head(q) = Head(pat) /\ fnmatch(Tail(q), Tail(pat))

\* the suffix under which __init__ files a pattern
suffix_of_pattern(pattern) ==
    IF pattern[Len(pattern)] \in {CharClass, "*", "?"} THEN <<>>
    ELSE suffix(pattern)

\* match_whole = "/" in pattern
match_whole(pattern) == \E i \in 1..Len(pattern) : pattern[i] = "/"

\* PatternLUT.__init__: _items_by_suffix, a list per suffix in the order of
\* the appends
PatternLUT(items) ==
    LET entry(i) == [pattern |-> items[i].pattern,
                     match_whole |-> match_whole(items[i].pattern),
                     val |-> items[i].val]
        B[i \in 0..Len(items)] ==
            IF i = 0 THEN [s \in {} |-> <<>>]
            ELSE LET s == suffix_of_pattern(items[i].pattern)
                     old == IF s \in DOMAIN B[i - 1] THEN B[i - 1][s] ELSE <<>>
                 IN [x \in DOMAIN B[i - 1] \cup {s} |->
                        IF x = s THEN Append(old, entry(i)) ELSE B[i - 1][x]]
    IN [pc |-> "built", items |-> items, items_by_suffix |-> B[Len(items)],
        path |-> <<>>, out |-> <<>>]

\* a query that is the base file name whatever the pattern
query_name_only(fpath, whole) == name(fpath)

\* query = path.as_posix() if match_whole else path.name
query(fpath, whole) == IF whole THEN fpath ELSE name(fpath)

\* PatternLUT.lookup(path): the (pattern, value) pairs it yields, in order
lookup(t, fpath) ==
    LET bucket == IF suffix(fpath) \in DOMAIN t.items_by_suffix
                  THEN t.items_by_suffix[suffix(fpath)] ELSE <<>>
        hit(e) == fnmatch(query(fpath, e.match_whole), e.pattern)
        sel == SelectSeq(bucket, hit)
    IN [i \in 1..Len(sel) |-> [pattern |-> sel[i].pattern, val |-> sel[i].val]]

\* the item lists of the model: the value of an item is its position
ItemLists ==
    UNION {{[i \in 1..n |-> [pattern |-> f[i], val |-> i]] :
               f \in [1..n -> LutPatterns]} : n \in 0..MaxItems}

(***************************************************************************)
(* Actions of the writer                                                   *)
(***************************************************************************)
Apply(r) == w' = r.w /\ tasks' = r.tasks

Write(size) ==
    /\ alive /\ w.pc = "idle" /\ w.batch_count < MaxWrites
    /\ LET batch == [id |-> w.batch_count + 1, size |-> size, src |-> 0]
       IN Apply(observe(w, tasks, write(w, tasks, isdir, batch), batch))
    /\ UNCHANGED <<fs, isdir, alive, cr, evars, xvars>>

Flush(blocking) ==
    /\ alive /\ w.pc = "idle"
    /\ Apply(flush([w EXCEPT !.op = "flush", !.exc = "none"], tasks, isdir, blocking))
    /\ UNCHANGED <<fs, isdir, alive, cr, evars, xvars>>

\* leaving the with block: __exit__ is called with the three exception
\* arguments, which the method does not accept
ExitWith ==
    /\ alive /\ w.pc = "idle"
    /\ w' = [w EXCEPT !.op = "exit", !.exc = "TypeError", !.pc = "closed"]
    /\ UNCHANGED <<tasks, fs, isdir, alive, cr, evars, xvars>>

\* a direct call writer.__exit__()
ExitCall ==
    /\ alive /\ w.pc = "idle"
    /\ Apply(exitFlush([w EXCEPT !.op = "exit", !.exc = "none"], tasks, isdir))
    /\ UNCHANGED <<fs, isdir, alive, cr, evars, xvars>>

Resume ==
    /\ alive /\ w.pc \in {"wait_prev", "wait_result"}
    /\ finished(tasks, w.future)
    /\ Apply(resume(w, tasks, isdir))
    /\ UNCHANGED <<fs, isdir, alive, cr, evars, xvars>>

TaskStart(i) ==
    /\ alive /\ canStart(tasks, i)
    /\ tasks' = [tasks EXCEPT ![i].st = "running"]
    /\ fs' = atomicopen_enter(fs, tasks[i].path, i)
    /\ UNCHANGED <<w, isdir, alive, cr, evars, xvars>>

TaskWrite(i) ==
    /\ alive /\ tasks[i].st = "running"
    /\ tasks' = [tasks EXCEPT ![i].st = "written"]
    /\ fs' = write_table(fs, tasks[i].path, i, tasks[i].table)
    /\ UNCHANGED <<w, isdir, alive, cr, evars, xvars>>

TaskWriteFail(i) ==
    /\ alive /\ tasks[i].st = "running"
    /\ tasks' = [tasks EXCEPT ![i].st = "failed"]
    /\ fs' = atomicopen_abort(fs, tasks[i].path, i)
    /\ UNCHANGED <<w, isdir, alive, cr, evars, xvars>>

TaskCommit(i) ==
    /\ alive /\ tasks[i].st = "written"
    /\ tasks' = [tasks EXCEPT ![i].st = "done"]
    /\ fs' = atomicopen_commit(fs, tasks[i].path, i)
    /\ UNCHANGED <<w, isdir, alive, cr, evars, xvars>>

TaskReplaceFail(i) ==
    /\ alive /\ tasks[i].st = "written"
    /\ tasks' = [tasks EXCEPT ![i].st = "failed_replace"]
    /\ fs' = atomicopen_replace_fails(fs, tasks[i].path, i)
    /\ UNCHANGED <<w, isdir, alive, cr, evars, xvars>>

\* the process is killed: its flush tasks never run on
Kill ==
    /\ alive
    /\ eng.pc \notin {"none", "ended"} \/ \E i \in 1..Len(tasks) : ~finished(tasks, i)
          \/ w.pc \notin {"idle", "closed"} \/ w.table # <<>>
    /\ alive' = FALSE
    /\ tasks' = [i \in 1..Len(tasks) |->
                    IF finished(tasks, i) THEN tasks[i]
                    ELSE [tasks[i] EXCEPT !.st = "killed"]]
    /\ eng' = [eng EXCEPT !.pc = IF @ \in {"none", "ended"} THEN @ ELSE "killed"]
    /\ UNCHANGED <<w, fs, isdir, cr, plog, rundir, cache, hist, xvars>>

WriterInit ==
    /\ w = NewWriter(Prefix, 1)
    /\ tasks = <<>>
    /\ fs = {}
    /\ isdir \in {{}, {Prefix}}
    /\ alive = TRUE
    /\ cr = NewCrawler(0)
    /\ EngineIdle

WriterNext ==
    \/ \E s \in BatchSizes : Write(s)
    \/ \E b \in BOOLEAN : Flush(b)
    \/ ExitWith
    \/ ExitCall
    \/ Resume
    \/ \E i \in 1..Len(tasks) : TaskStart(i)
    \/ \E i \in 1..Len(tasks) : TaskWrite(i)
    \/ \E i \in 1..Len(tasks) : TaskWriteFail(i)
    \/ \E i \in 1..Len(tasks) : TaskCommit(i)
    \/ \E i \in 1..Len(tasks) : TaskReplaceFail(i)
    \/ Kill

SpecWriter == WriterInit /\ [][WriterNext]_vars

(***************************************************************************)
(* Actions of the crawler                                                  *)
(***************************************************************************)
\* crawl(dirpath) up to its loop; n is the number of (file, handler) matches
\* that the scan of the directory is going to yield
CrawlStart(n) ==
    /\ cr.pc = "idle"
    /\ cr' = crawl_enter(cr, InputPaths[1], n)
    /\ UNCHANGED <<wvars, evars, xvars>>

\* the pool's task thread takes the next match from _scan_for_matches
Scan ==
    /\ cr.pc \in {"running", "raised"}
    /\ cr.scanned < cr.n
    /\ cr' = [cr EXCEPT !.scanned = @ + 1]
    /\ UNCHANGED <<wvars, evars, xvars>>

\* a pool thread runs taskfn on a scanned match
TaskRun(m, ix, hd) ==
    /\ m \in 1..cr.scanned
    /\ \A r \in cr.results : r.m # m
    /\ cr' = taskfn(cr, m, ix, hd)
    /\ UNCHANGED <<wvars, evars, xvars>>

\* the loop of crawl receives a result, in any order
Aggregate(val) ==
    /\ cr.pc = "running"
    /\ val \in cr.results /\ val.m \notin cr.consumed
    /\ cr' = aggregate(cr, val)
    /\ UNCHANGED <<wvars, evars, xvars>>

\* the iterator is exhausted: crawl returns tables, errors, counts
CrawlReturn ==
    /\ cr.pc = "running"
    /\ cr.scanned = cr.n
    /\ cr.consumed = 1..cr.n
    /\ cr' = [cr EXCEPT !.pc = "returned", !.final = as_table(cr.tables)]
    /\ UNCHANGED <<wvars, evars, xvars>>

CrawlInit ==
    /\ w = NewWriter(Prefix, 1)
    /\ tasks = <<>>
    /\ fs = {}
    /\ isdir = {}
    /\ alive = TRUE
    /\ \E k \in 0..MaxFailuresLimit : cr = NewCrawler(k)
    /\ EngineIdle

CrawlNext ==
    \/ \E n \in 0..MaxMatches : CrawlStart(n)
    \/ Scan
    \/ \E m \in 1..MaxMatches, ix \in IndexerOutcomes, hd \in HandlerOutcomes :
          TaskRun(m, ix, hd)
    \/ \E val \in cr.results : Aggregate(val)
    \/ CrawlReturn

SpecCrawl == CrawlInit /\ [][CrawlNext]_vars

\* the same Crawler is asked to crawl again, after crawl returned or raised:
\* the iterator of the earlier imap_unordered call is dropped with what it
\* held, and the tasks of that call which have not run yet are left to the pool
Recrawl(dirpath, n) ==
    /\ cr.pc \in {"returned", "raised"}
    /\ cr.crawls < MaxCrawls
    /\ cr' = crawl_enter([cr EXCEPT !.scanned = 0, !.ran = {}, !.results = {},
                                    !.consumed = {}, !.final = {},
                                    !.stale = @ + (cr.n - Cardinality(cr.results))],
                         dirpath, n)
    /\ UNCHANGED <<wvars, evars, xvars>>

\* a pool thread runs a task of an earlier imap_unordered call: its return
\* value goes to the iterator of that call
StaleTaskRun ==
    /\ cr.stale > 0
    /\ cr' = [cr EXCEPT !.stale = @ - 1]
    /\ UNCHANGED <<wvars, evars, xvars>>

RecrawlNext ==
    \/ \E n \in 0..MaxMatches : CrawlStart(n)
    \/ Scan
    \/ \E m \in 1..MaxMatches, ix \in IndexerOutcomes, hd \in HandlerOutcomes :
          TaskRun(m, ix, hd)
    \/ \E val \in cr.results : Aggregate(val)
    \/ CrawlReturn
    \/ \E dirpath \in {InputPaths[1], InputPaths[2]}, n \in 0..MaxMatches :
          Recrawl(dirpath, n)
    \/ StaleTaskRun

SpecRecrawl == CrawlInit /\ [][RecrawlNext]_vars

(***************************************************************************)
(* Actions of the orchestrator                                             *)
(***************************************************************************)
Summary(e) == [collection_id |-> e.collection_id, status |-> e.status,
               crawled |-> e.crawled, logged |-> e.logged]

\* the candidate paths that the description of filter_paths keeps, read off
\* the retained log entries and the disk
ExpectedTodo(df, files, paths, thr) ==
    LET done(q) == \E e \in df :
                      /\ e.path = q
                      /\ \A x \in e.partitions : Exists(files, x)
                      /\ thr.set => rate_within(e, thr)
        F[i \in 0..Len(paths)] ==
            IF i = 0 THEN <<>>
            ELSE IF done(paths[i]) THEN F[i - 1] ELSE Append(F[i - 1], paths[i])
    IN F[Len(paths)]

\* the candidate paths whose entry appended last is missing, names a
\* partition that is not on disk, or has an error rate above the threshold
LatestTodo(lg, files, paths, thr) ==
    LET lines(q) == {i \in 1..Len(lg) : lg[i].path = q}
        latest(q) == lg[CHOOSE k \in lines(q) : \A j \in lines(q) : j <= k]
        done(q) == /\ lines(q) # {}
                   /\ \A x \in latest(q).partitions : Exists(files, x)
                   /\ thr.set => rate_within(latest(q), thr)
    IN {paths[i] : i \in {j \in 1..Len(paths) : ~done(paths[j])}}

\* launch(cfg) for worker 0 of one worker, up to the main loop
Launch(cid, fc, thr, newproc, flush_on_error, dry_run) ==
    /\ eng.pc \in {"none", "ended", "killed"}
    /\ ~fc => thr = NoThreshold
    /\ Len(hist) + (IF eng.pc = "none" THEN 0 ELSE 1) < MaxLaunches
    /\ IF newproc
       THEN ~alive \/ \A i \in 1..Len(tasks) : tasks[i].st \in {"done", "failed", "failed_replace", "killed"}
       ELSE alive /\ eng.pc # "none"
    /\ LET ch0 == IF newproc THEN {} ELSE cache
           df == load(plog)
           filtered == IF fc THEN filter_paths(df, ch0, fs, InputPaths, thr)
                       ELSE InputPaths
           saved == {x \in rundir.paths_list : x.collection_id = cid}
           paths == IF saved = {} THEN filtered
                    ELSE (CHOOSE x \in saved : TRUE).paths
           ran_before == cid \in rundir.workers
           e0 == [NoRun EXCEPT !.collection_id = cid, !.filter_completed = fc,
                               !.threshold = thr, !.newproc = newproc,
                               !.flush_on_error = flush_on_error,
                               !.dry_run = dry_run,
                               !.tables_initialized = TRUE,
                               !.paths = paths,
                               !.filtered = filtered,
                               !.expected = IF fc THEN ExpectedTodo(df, fs, InputPaths, thr)
                                            ELSE InputPaths,
                               !.pre = \A i \in 1..Len(plog) :
                                          /\ \A x \in plog[i].partitions : Exists(fs, x)
                                          /\ thr.set => rate_within(plog[i], thr),
                               !.redo = LatestTodo(plog, fs, InputPaths, thr)]
       IN /\ cache' = IF fc THEN cache_after(ch0, fs, df, InputPaths) ELSE ch0
          /\ rundir' = IF dry_run THEN rundir
                        ELSE [paths_list |-> IF saved = {}
                                             THEN rundir.paths_list \cup
                                                    {[collection_id |-> cid, paths |-> filtered]}
                                             ELSE rundir.paths_list,
                              workers |-> rundir.workers \cup {cid}]
          /\ IF ran_before
             THEN /\ eng' = [e0 EXCEPT !.pc = "ended", !.status = "exit_worker"]
                  /\ w' = w
             ELSE IF paths = <<>>
             THEN /\ eng' = [e0 EXCEPT !.pc = "ended", !.status = "exit_empty"]
                  /\ w' = w
             ELSE /\ eng' = [e0 EXCEPT !.pc = "loop"]
                  /\ w' = NewWriter(writer_dir(cid), Len(hist) + 2)
    /\ hist' = IF eng.pc = "none" THEN hist ELSE Append(hist, Summary(eng))
    /\ alive' = TRUE
    /\ UNCHANGED <<tasks, fs, isdir, cr, plog, xvars>>

\* launch(cfg) with dry_run for a worker other than the head worker: it
\* returns after the check of the configuration
LaunchDryWorker(cid, worker_id) ==
    /\ eng.pc \in {"none", "ended", "killed"}
    /\ worker_id # 0
    /\ Len(hist) + (IF eng.pc = "none" THEN 0 ELSE 1) < MaxLaunches
    /\ ~alive \/ \A i \in 1..Len(tasks) :
                    tasks[i].st \in {"done", "failed", "failed_replace", "killed"}
    /\ eng' = [NoRun EXCEPT !.collection_id = cid, !.dry_run = TRUE,
                            !.newproc = TRUE, !.worker_id = worker_id,
                            !.pc = "ended", !.status = "exit_dry_worker"]
    /\ cache' = {}
    /\ hist' = IF eng.pc = "none" THEN hist ELSE Append(hist, Summary(eng))
    /\ alive' = TRUE
    /\ UNCHANGED <<w, tasks, fs, isdir, cr, plog, rundir, xvars>>

\* an except clause that flushes the writers whatever flush_on_error says
Except_flush_always(e, wr, ts) ==
    IF ~e.dry_run
    THEN LET r == flush([wr EXCEPT !.op = "flush", !.exc = "none"], ts, isdir, TRUE)
         IN /\ eng' = [e EXCEPT !.pc = "except_flush", !.flushed_on_error = TRUE]
            /\ w' = r.w /\ tasks' = r.tasks
    ELSE /\ eng' = [e EXCEPT !.pc = "ended", !.status = "failed",
                             !.crawler_closed = TRUE]
         /\ w' = wr /\ tasks' = ts

\* the except clause of the main loop, with _flush, and the finally clause
\* when nothing is flushed
Except(e, wr, ts) ==
    IF e.flush_on_error /\ ~e.dry_run
    THEN LET r == flush([wr EXCEPT !.op = "flush", !.exc = "none"], ts, isdir, TRUE)
         IN /\ eng' = [e EXCEPT !.pc = "except_flush", !.flushed_on_error = TRUE]
            /\ w' = r.w /\ tasks' = r.tasks
    ELSE /\ eng' = [e EXCEPT !.pc = "ended", !.status = "failed",
                             !.crawler_closed = TRUE]
         /\ w' = wr /\ tasks' = ts

\* an iteration of the main loop that writes the tables of a dry run too
LoopStep_dry_run_writes(res) ==
    /\ alive /\ eng.pc = "loop" /\ eng.idx <= Len(eng.paths)
    /\ LET e1 == [eng EXCEPT !.crawled = Append(@, eng.paths[eng.idx]), !.cur = res]
       IN IF res.raises
          THEN Except(e1, w, tasks)
          ELSE /\ LET batch == [id |-> w.batch_count + 1, size |-> res.size,
                                 src |-> eng.paths[eng.idx]]
                  IN Apply(observe(w, tasks, write(w, tasks, isdir, batch), batch))
               /\ eng' = [e1 EXCEPT !.pc = "in_write"]
    /\ UNCHANGED <<fs, isdir, alive, cr, plog, rundir, cache, hist, xvars>>

\* one iteration of the main loop up to the return of writer.write; a dry
\* run leaves the loop after its first crawl and ends without writing
LoopStep(res) ==
    /\ alive /\ eng.pc = "loop" /\ eng.idx <= Len(eng.paths)
    /\ LET e1 == [eng EXCEPT !.crawled = Append(@, eng.paths[eng.idx]), !.cur = res]
       IN IF res.raises
          THEN Except(e1, w, tasks)
          ELSE IF eng.dry_run
          THEN /\ eng' = [e1 EXCEPT !.pc = "ended", !.status = "done",
                                    !.crawler_closed = TRUE]
               /\ UNCHANGED <<w, tasks>>
          ELSE /\ LET batch == [id |-> w.batch_count + 1, size |-> res.size,
                                 src |-> eng.paths[eng.idx]]
                  IN Apply(observe(w, tasks, write(w, tasks, isdir, batch), batch))
               /\ eng' = [e1 EXCEPT !.pc = "in_write"]
    /\ UNCHANGED <<fs, isdir, alive, cr, plog, rundir, cache, hist, xvars>>

\* writer.write has returned or raised: processed_log.write, next path
LoopLog ==
    /\ alive /\ eng.pc = "in_write" /\ w.pc = "idle"
    /\ IF w.exc # "none"
       THEN Except(eng, w, tasks) /\ plog' = plog
       ELSE /\ plog' = Append(plog, log_record(eng.collection_id, 0,
                                               eng.paths[eng.idx], eng.cur, {w.ret}))
            /\ eng' = [eng EXCEPT !.pc = "loop", !.idx = @ + 1, !.logged = @ + 1,
                                  !.cur = NoRun.cur]
            /\ UNCHANGED <<w, tasks>>
    /\ UNCHANGED <<fs, isdir, alive, cr, rundir, cache, hist, xvars>>

\* the else clause of the main loop: _flush()
LoopEnd ==
    /\ alive /\ eng.pc = "loop" /\ eng.idx > Len(eng.paths)
    /\ Apply(flush([w EXCEPT !.op = "flush", !.exc = "none"], tasks, isdir, TRUE))
    /\ eng' = [eng EXCEPT !.pc = "final_flush"]
    /\ UNCHANGED <<fs, isdir, alive, cr, plog, rundir, cache, hist, xvars>>

\* the blocking flush has returned or raised: _generate_tables ends
FlushReturn ==
    /\ alive /\ eng.pc \in {"final_flush", "except_flush"} /\ w.pc = "idle"
    /\ eng' = [eng EXCEPT !.pc = "ended", !.crawler_closed = TRUE,
                          !.status = IF eng.pc = "final_flush" /\ w.exc = "none"
                                     THEN "done" ELSE "failed"]
    /\ UNCHANGED <<wvars, cr, plog, rundir, cache, hist, xvars>>

\* a flush task runs from its start to its end without an I/O error
FlushTaskRun(i) ==
    /\ alive /\ tasks[i].st = "running"
    /\ tasks' = [tasks EXCEPT ![i].st = "done"]
    /\ fs' = atomicopen_commit(write_table(fs, tasks[i].path, i, tasks[i].table),
                               tasks[i].path, i)
    /\ UNCHANGED <<w, isdir, alive, cr, evars, xvars>>

EngineInit ==
    /\ w = NewWriter(Prefix, 1)
    /\ tasks = <<>>
    /\ fs = {}
    /\ isdir = {}
    /\ alive = TRUE
    /\ cr = NewCrawler(0)
    /\ EngineIdle

EngineNext ==
    \/ \E cid \in RunIds, fc \in BOOLEAN, thr \in Thresholds, np \in BOOLEAN :
          Launch(cid, fc, thr, np, FALSE, FALSE)
    \/ \E res \in CrawlResults : LoopStep(res)
    \/ LoopLog
    \/ LoopEnd
    \/ FlushReturn
    \/ Resume
    \/ \E i \in 1..Len(tasks) : TaskStart(i)
    \/ \E i \in 1..Len(tasks) : FlushTaskRun(i)
    \/ \E i \in 1..Len(tasks) : TaskWriteFail(i)
    \/ Kill

SpecEngine == EngineInit /\ [][EngineNext]_vars

\* the launches of new processes without filter_completed, with
\* flush_on_error and dry_run set or not
EngineFlagsNext ==
    \/ \E cid \in RunIds, flush_on_error \in BOOLEAN, dry_run \in BOOLEAN :
          Launch(cid, FALSE, NoThreshold, TRUE, flush_on_error, dry_run)
    \/ \E cid \in RunIds : LaunchDryWorker(cid, 1)
    \/ \E res \in CrawlResults : LoopStep(res)
    \/ LoopLog
    \/ LoopEnd
    \/ FlushReturn
    \/ Resume
    \/ \E i \in 1..Len(tasks) : TaskStart(i)
    \/ \E i \in 1..Len(tasks) : FlushTaskRun(i)
    \/ \E i \in 1..Len(tasks) : TaskWriteFail(i)
    \/ Kill

SpecEngineFlags == EngineInit /\ [][EngineFlagsNext]_vars

(***************************************************************************)
(* The workers of one launch partition its path list                       *)
(***************************************************************************)
\* everything but the partitioning is idle
OthersIdle ==
    /\ w = NewWriter(Prefix, 1)
    /\ tasks = <<>>
    /\ fs = {}
    /\ isdir = {}
    /\ alive = TRUE
    /\ cr = NewCrawler(0)
    /\ plog = <<>>
    /\ rundir = [paths_list |-> {}, workers |-> {}]
    /\ cache = {}
    /\ eng = NoRun
    /\ hist = <<>>
    /\ logobj = NoLog
    /\ co = NoCoercion

\* worker worker_id of the launch computes its slice of the saved path list
PartitionPaths(worker_id) ==
    /\ worker_id \in 0..(pt.num_workers - 1)
    /\ \A x \in pt.slices : x.worker_id # worker_id
    /\ pt' = [pt EXCEPT !.slices = @ \cup
                 {[worker_id |-> worker_id,
                   paths |-> partition_paths(pt.paths, worker_id, pt.num_workers,
                                             pt.min_per_worker)]}]
    /\ UNCHANGED <<wvars, cr, evars, logobj, co, tb, hnd, lut>>

PartitionInit ==
    /\ OthersIdle
    /\ \E n \in 0..MaxPaths, nw \in 1..MaxWorkers, mpw \in 0..MaxMinPerWorker :
          pt = [paths |-> PathList(n), num_workers |-> nw, min_per_worker |-> mpw,
                slices |-> {}]
    /\ tb = NoTable
    /\ hnd = NoHandler
    /\ lut = NoLUT

PartitionNext == \E worker_id \in 0..(MaxWorkers - 1) : PartitionPaths(worker_id)

SpecPartition == PartitionInit /\ [][PartitionNext]_vars

(***************************************************************************)
(* A Table is built by put calls and converted                             *)
(***************************************************************************)
TablePut(key, column_group, record) ==
    /\ tb.pc = "open"
    /\ tb' = [Table_put(tb, key, column_group, record) EXCEPT
                 !.op = "put", !.out = NoOut]
    /\ UNCHANGED <<wvars, cr, evars, logobj, co, pt, hnd, lut>>

TableToPandas ==
    /\ tb.pc = "open"
    /\ tb' = [tb EXCEPT !.pc = "converted", !.op = "to_pandas", !.exc = "none",
                        !.out = to_pandas(tb)]
    /\ UNCHANGED <<wvars, cr, evars, logobj, co, pt, hnd, lut>>

TableInit ==
    /\ OthersIdle
    /\ pt = NoPartition
    /\ \E index_names \in IndexNameChoices, constants \in ConstantChoices :
          tb = NewTable(index_names, constants)
    /\ hnd = NoHandler
    /\ lut = NoLUT

TableNext ==
    \/ \E key \in PutKeys, column_group \in PutGroups, record \in PutRecords :
          TablePut(key, column_group, record)
    \/ TableToPandas

SpecTable == TableInit /\ [][TableNext]_vars

(***************************************************************************)
(* A handler is called on a file by the crawler's task function            *)
(***************************************************************************)
\* handler.handler(path)
HandlerCall ==
    /\ hnd.pc = "ready"
    /\ hnd' = [hnd EXCEPT !.pc = "called",
                          !.result = handler_call(hnd.schema, hnd.overlap_threshold,
                                                  hnd.loaded)]
    /\ UNCHANGED <<wvars, cr, evars, logobj, co, pt, tb, lut>>

\* _process_one around the call, for a path whose indexer returned key k1
ProcessOne ==
    /\ hnd.pc = "called"
    /\ hnd' = [hnd EXCEPT !.pc = "processed",
                          !.val = process_one(1, "k1", hnd.result.kind)]
    /\ UNCHANGED <<wvars, cr, evars, logobj, co, pt, tb, lut>>

HandlerInit ==
    /\ OthersIdle
    /\ pt = NoPartition
    /\ tb = NoTable
    /\ \E schema \in SchemaChoices, threshold \in OverlapThresholds,
          loaded \in LoadOutcomes :
          hnd = NewHandler(schema, threshold, loaded)
    /\ lut = NoLUT

HandlerNext == HandlerCall \/ ProcessOne

SpecHandler == HandlerInit /\ [][HandlerNext]_vars

(***************************************************************************)
(* The handlers of one table and the schema of the table built for them    *)
(***************************************************************************)
\* the labels a handler can be configured with
HandlerLabels == {"a", "b"}

\* the HandlerTuples of the handlers_map of one table: label and the schema
\* of the handler
HandlerTuples == [label : HandlerLabels, schema : SchemaChoices]

\* the schema argument of _new_tables, {h.label: h.handler.schema for h in
\* handlers}: a later handler with the same label replaces the earlier one
table_schema(handlers) ==
    [l \in {handlers[i].label : i \in 1..Len(handlers)} |->
        LET last == CHOOSE i \in 1..Len(handlers) :
                       /\ handlers[i].label = l
                       /\ \A j \in 1..Len(handlers) : handlers[j].label = l => j <= i
        IN handlers[last].schema]

\* the validation of IncrementalTable.put(key, record, label): the label is
\* a declared one and every field of the record belongs to its schema
put_rejects(schema, label, fields) ==
    \/ label \notin DOMAIN schema
    \/ ~(fields \subseteq schema[label])

\* Crawler.__init__ for one table with two handlers: it compares the table
\* names of the two maps and accepts every list of handlers
NewBindings(h1, h2) ==
    [pc |-> "constructed", handlers |-> <<h1, h2>>, schema |-> [l \in {} |-> {}],
     exc |-> "none", last |-> [i |-> 0, fields |-> {}]]

\* crawl up to its loop: _new_tables builds the schema of the table
NewTables ==
    /\ hnd.pc = "constructed"
    /\ hnd' = [hnd EXCEPT !.pc = "crawling", !.schema = table_schema(hnd.handlers)]
    /\ UNCHANGED <<wvars, cr, evars, logobj, co, pt, tb, lut>>

\* handler i returns a record for a matched file and the loop of crawl puts
\* it under the label of the handler
PutRecord(i, threshold, loaded) ==
    /\ hnd.pc = "crawling"
    /\ i \in 1..Len(hnd.handlers)
    /\ LET result == handler_call(hnd.handlers[i].schema, threshold, loaded)
       IN /\ result.kind = "record"
          /\ hnd' = [hnd EXCEPT
                       !.last = [i |-> i, fields |-> result.fields],
                       !.exc = IF put_rejects(hnd.schema, hnd.handlers[i].label,
                                              result.fields)
                               THEN "ValueError" ELSE "none",
                       !.pc = IF put_rejects(hnd.schema, hnd.handlers[i].label,
                                             result.fields)
                              THEN "raised" ELSE "crawling"]
    /\ UNCHANGED <<wvars, cr, evars, logobj, co, pt, tb, lut>>

BindingsInit ==
    /\ OthersIdle
    /\ pt = NoPartition
    /\ tb = NoTable
    /\ \E h1, h2 \in HandlerTuples : hnd = NewBindings(h1, h2)
    /\ lut = NoLUT

BindingsNext ==
    \/ NewTables
    \/ \E i \in 1..2, threshold \in OverlapThresholds, loaded \in LoadOutcomes :
          PutRecord(i, threshold, loaded)

SpecBindings == BindingsInit /\ [][BindingsNext]_vars

(***************************************************************************)
(* A path is looked up in a PatternLUT                                     *)
(***************************************************************************)
\* list(lut.lookup(path))
Lookup(fpath) ==
    /\ lut.pc = "built"
    /\ lut' = [lut EXCEPT !.pc = "looked", !.path = fpath, !.out = lookup(lut, fpath)]
    /\ UNCHANGED <<wvars, cr, evars, logobj, co, pt, tb, hnd>>

LookupInit ==
    /\ OthersIdle
    /\ pt = NoPartition
    /\ tb = NoTable
    /\ hnd = NoHandler
    /\ \E items \in ItemLists : lut = PatternLUT(items)

LookupNext == \E fpath \in LutPaths : Lookup(fpath)

SpecLookup == LookupInit /\ [][LookupNext]_vars

(***************************************************************************)
(* One ProcessedLog object is read and written                             *)
(***************************************************************************)
\* an access of the df property
LogLoad ==
    /\ logobj.pc \in {"new", "filtered"}
    /\ logobj' = log_df(logobj, plog)
    /\ UNCHANGED <<wvars, cr, evars, co, pt, tb, hnd, lut>>

\* write(collection_id, worker_id, path, counts, partitions, errors): a line
\* is appended to the worker's file
LogWrite(p, error) ==
    /\ logobj.pc \in {"new", "filtered"}
    /\ logobj.writes < MaxLogWrites
    /\ plog' = Append(plog, log_record(1, 0, p, [total |-> 1, error |-> error], {}))
    /\ logobj' = [logobj EXCEPT !.writes = @ + 1]
    /\ UNCHANGED <<wvars, cr, rundir, cache, eng, hist, co, pt, tb, hnd, lut>>

\* filter_paths(paths, error_rate_threshold) for the paths d1 and d2
LogFilter(thr) ==
    /\ logobj.pc \in {"new", "filtered"}
    /\ LET lo == log_df(logobj, plog)
       IN /\ logobj' = [lo EXCEPT !.pc = "filtered",
                                  !.out = filter_paths(lo.df, cache, fs, InputPaths, thr)]
          /\ cache' = cache_after(cache, fs, lo.df, InputPaths)
    /\ UNCHANGED <<wvars, cr, plog, rundir, eng, hist, co, pt, tb, hnd, lut>>

LogInit ==
    /\ w = NewWriter(Prefix, 1)
    /\ tasks = <<>>
    /\ fs = {}
    /\ isdir = {}
    /\ alive = TRUE
    /\ cr = NewCrawler(0)
    /\ plog = <<>>
    /\ rundir = [paths_list |-> {}, workers |-> {}]
    /\ cache = {}
    /\ eng = NoRun
    /\ hist = <<>>
    /\ pt = NoPartition
    /\ tb = NoTable
    /\ hnd = NoHandler
    /\ lut = NoLUT
    /\ logobj = NewLog
    /\ co = NoCoercion

LogNext ==
    \/ LogLoad
    \/ \E p \in {InputPaths[1], InputPaths[2]}, error \in 0..1 : LogWrite(p, error)
    \/ \E thr \in Thresholds : LogFilter(thr)

SpecLog == LogInit /\ [][LogNext]_vars

(***************************************************************************)
(* schema.py: Schema.coerce on a DataFrame                                 *)
(***************************************************************************)
\* the column names and the dtypes of the model: int64 cannot hold a null,
\* Int64 and object can
ColumnNames == {"a", "b", "c"}
Dtypes == {"int64", "Int64", "object"}
Nullable == {"Int64", "object"}

\* the sequences of at most MaxColumns elements of S with distinct names
DistinctSeqs(S) ==
    UNION {{f \in [1..n -> S] : \A i, j \in 1..n : i # j => f[i].name # f[j].name} :
              n \in 0..MaxColumns}

\* Schema(fields): the columns in the order of the mapping
Schemas == DistinctSeqs([name : ColumnNames, dtype : Dtypes]) \ {<<>>}

\* a DataFrame of one row: per column its name, its dtype and whether its
\* cell holds a value or a null
Frames ==
    DistinctSeqs({c \in [name : ColumnNames, dtype : Dtypes, cell : {"v", "null"}] :
                     c.cell = "null" => c.dtype \in Nullable})

\* Schema.matches(df, strict=True): the dtypes Series are equal, labels and
\* order included
matches_strict(schema, frame) ==
    /\ Len(frame) = Len(schema)
    /\ \A i \in 1..Len(schema) :
          frame[i].name = schema[i].name /\ frame[i].dtype = schema[i].dtype

\* Series.astype(dtype) on one cell: a null cannot become an int64 and stays
\* a null in a dtype that can hold it
astype(cell, dtype) ==
    IF cell = "v" THEN "v"
    ELSE IF dtype = "int64" THEN "raise"
    ELSE "null"

\* a coercion that casts the columns of the input where they stand
coerce_pandas_in_place(schema, frame) ==
    LET dtype_of(n) == schema[CHOOSE i \in 1..Len(schema) : schema[i].name = n].dtype
        known(c) == \E i \in 1..Len(schema) : schema[i].name = c.name
        absent(f) == \A j \in 1..Len(frame) : frame[j].name # f.name
        missing == SelectSeq(schema, absent)
        added == frame \o [i \in 1..Len(missing) |->
                             [name |-> missing[i].name, dtype |-> "object",
                              cell |-> "null"]]
        kept == SelectSeq(added, known)
        cast == [i \in 1..Len(kept) |->
                   [name |-> kept[i].name, dtype |-> dtype_of(kept[i].name),
                    cell |-> astype(kept[i].cell, dtype_of(kept[i].name))]]
    IN IF matches_strict(schema, frame) THEN [exc |-> "none", df |-> frame]
       ELSE IF \E i \in 1..Len(cast) : cast[i].cell = "raise"
            THEN [exc |-> "raised", df |-> <<>>]
            ELSE [exc |-> "none", df |-> cast]

\* Schema._coerce_pandas(df): the frame itself when it matches, else a copy
\* with the missing columns added as None, the schema's columns selected in
\* the schema's order, and every column cast
coerce_pandas(schema, frame) ==
    LET column(i) ==
            IF \E j \in 1..Len(frame) : frame[j].name = schema[i].name
            THEN CHOOSE c \in {frame[j] : j \in 1..Len(frame)} : c.name = schema[i].name
            ELSE [name |-> schema[i].name, dtype |-> "object", cell |-> "null"]
        cast == [i \in 1..Len(schema) |->
                   [name |-> schema[i].name, dtype |-> schema[i].dtype,
                    cell |-> astype(column(i).cell, schema[i].dtype)]]
    IN IF matches_strict(schema, frame) THEN [exc |-> "none", df |-> frame]
       ELSE IF \E i \in 1..Len(schema) : cast[i].cell = "raise"
            THEN [exc |-> "raised", df |-> <<>>]
            ELSE [exc |-> "none", df |-> cast]

\* a schema and a DataFrame to coerce
NewCoercion(schema, frame) ==
    [pc |-> "new", schema |-> schema, frame |-> frame,
     out |-> [exc |-> "none", df |-> <<>>], again |-> [exc |-> "none", df |-> <<>>]]

\* schema.coerce(df)
Coerce ==
    /\ co.pc = "new"
    /\ co' = [co EXCEPT !.pc = "coerced", !.out = coerce_pandas(co.schema, co.frame)]
    /\ UNCHANGED <<wvars, cr, evars, logobj, pt, tb, hnd, lut>>

\* schema.coerce of the result of schema.coerce(df)
CoerceAgain ==
    /\ co.pc = "coerced" /\ co.out.exc = "none"
    /\ co' = [co EXCEPT !.pc = "again", !.again = coerce_pandas(co.schema, co.out.df)]
    /\ UNCHANGED <<wvars, cr, evars, logobj, pt, tb, hnd, lut>>

CoerceInit ==
    /\ w = NewWriter(Prefix, 1)
    /\ tasks = <<>>
    /\ fs = {}
    /\ isdir = {}
    /\ alive = TRUE
    /\ cr = NewCrawler(0)
    /\ plog = <<>>
    /\ rundir = [paths_list |-> {}, workers |-> {}]
    /\ cache = {}
    /\ eng = NoRun
    /\ hist = <<>>
    /\ logobj = NoLog
    /\ pt = NoPartition
    /\ tb = NoTable
    /\ hnd = NoHandler
    /\ lut = NoLUT
    /\ \E schema \in Schemas, frame \in Frames : co = NewCoercion(schema, frame)

CoerceNext == Coerce \/ CoerceAgain

SpecCoerce == CoerceInit /\ [][CoerceNext]_vars

(***************************************************************************)
(* Properties of the processing log and of the resume logic                *)
(***************************************************************************)
\* C1: a second launch with filter_completed, made after a first launch that
\* ran to its end, with every logged error rate within the threshold and
\* every logged partition on disk, crawls no directory and appends no log
\* entry, with the same or with a new collection id.
C1_IdempotentResume ==
    (/\ Len(hist) = 1 /\ hist[1].status = "done"
     /\ eng.filter_completed /\ eng.pre)
        => /\ eng.crawled = <<>>
           /\ eng.logged = 0
           /\ eng.pc = "ended"
           /\ Len(plog) = hist[1].logged

\* the second launch, under a new collection id and with a threshold, found
\* both directories of the first launch completed
C1_Witness ==
    /\ Len(hist) = 1 /\ hist[1].status = "done" /\ hist[1].logged = Len(InputPaths)
    /\ eng.filter_completed /\ eng.pre /\ eng.threshold.set
    /\ eng.collection_id # hist[1].collection_id
    /\ eng.status = "exit_empty"

\* C2: filter_paths returns, in their order, exactly the candidate paths that
\* have no retained log entry, or whose retained entry names a partition
\* that is not on disk, or has an error rate above the threshold.
C2_FilterPathsExact ==
    eng.filter_completed => eng.filtered = eng.expected

\* the same, for the first filter_paths call of a process
C2_FilterPathsExactFreshProcess ==
    (eng.filter_completed /\ eng.newproc) => eng.filtered = eng.expected

(***************************************************************************)
(* Properties of the crawler                                               *)
(***************************************************************************)
\* the matches whose indexer raised, or whose handler (called because the
\* indexer returned a key) raised
RaisingMatches ==
    {o.m : o \in {x \in cr.ran : x.ix = "raise" \/ (x.ix \in Keys /\ x.hd = "raise")}}

ErrorsOf(m) == {i \in 1..Len(cr.errors) : cr.errors[i].path = m}

\* C3: a crawl without a failure limit that returns has counted every match
\* in total, every raising match in error, holds one failure per error, and
\* its tables hold only records of matches that did not raise.
C3_PartialFailureCounts ==
    (cr.pc = "returned" /\ cr.max_failures = 0) =>
        /\ cr.counts.total = cr.n
        /\ cr.counts.error = Cardinality(RaisingMatches)
        /\ cr.counts.error = Len(cr.errors)
        /\ \A c \in cr.tables :
              /\ c.val \notin RaisingMatches
              /\ [m |-> c.val, ix |-> c.key, hd |-> "record"] \in cr.ran

\* a crawl of three matches has returned; one or two of them raised and a
\* record of another one is in the table
C3_Witness ==
    /\ cr.pc = "returned" /\ cr.max_failures = 0 /\ cr.n = MaxMatches
    /\ Cardinality(RaisingMatches) \in 1..(MaxMatches - 1)
    /\ cr.tables # {}

\* C4: without a failure limit crawl never raises; every aggregated match that
\* raised has exactly one failure naming its path, its pattern and the
\* indexer or handler that raised, the other matches have none; a crawl that
\* returned has aggregated every match.
C4_FailuresNeverPropagate ==
    cr.max_failures = 0 =>
        /\ cr.pc # "raised"
        /\ \A m \in cr.consumed :
              IF m \in RaisingMatches
              THEN /\ Cardinality(ErrorsOf(m)) = 1
                   /\ \A i \in ErrorsOf(m) :
                         /\ cr.errors[i].pattern = LabelOf(m)
                         /\ cr.errors[i].handler =
                               IF \E o \in cr.ran : o.m = m /\ o.ix = "raise"
                               THEN "indexer" ELSE "handler"
              ELSE ErrorsOf(m) = {}
        /\ Len(cr.errors) = Cardinality(RaisingMatches \cap cr.consumed)
        /\ cr.pc = "returned" => cr.consumed = 1..cr.n

\* the crawl went on after an indexer and a handler failure and returned
C4_Witness ==
    /\ cr.pc = "returned" /\ cr.max_failures = 0
    /\ \E i, j \in 1..Len(cr.errors) :
          cr.errors[i].handler = "indexer" /\ cr.errors[j].handler = "handler"
    /\ cr.tables # {}

\* C5: with max_failures = K >= 1 the crawl aborts only when the number of
\* failures exceeds K.
C5_AbortOnlyAboveLimit ==
    (cr.max_failures >= 1 /\ cr.pc = "raised") => Len(cr.errors) > cr.max_failures

(***************************************************************************)
(* Properties of the writer                                                *)
(***************************************************************************)
PartFiles == {f \in fs : f.path.kind = "part"}

\* the (file, row position) pairs of the partition files that hold batch id
Occurrences(id) ==
    {x \in UNION {{<<f, k>> : k \in 1..Len(f.rows)} : f \in PartFiles} :
        x[1].rows[x[2]].id = id}

InSomePartition(id) == Occurrences(id) # {}

Outstanding ==
    {i \in 1..Len(tasks) : tasks[i].wid = w.wid /\ ~finished(tasks, i)}

BatchIds(table) == {table[k].id : k \in 1..Len(table)}

\* C6: a file at a canonical partition path is closed and holds the whole
\* table of the flush task that wrote it; only '.tmp-*' files are ever open
\* or partial; a flush task whose write raised has left neither its temporary
\* file nor its partition file; a flush task that was killed, or has not
\* yet renamed its file, has no partition file.
C6_AtomicPartitionVisibility ==
    /\ \A f \in fs :
          f.path.kind = "part" =>
              /\ f.closed
              /\ f.src \in 1..Len(tasks)
              /\ tasks[f.src].path = f.path
              /\ f.rows = tasks[f.src].table
    /\ \A f \in fs : ~f.closed => f.path.kind = "tmp"
    /\ \A i \in 1..Len(tasks) :
          tasks[i].st = "failed" =>
              /\ ~Exists(fs, tmpname(tasks[i].path, i))
              /\ ~Exists(fs, tasks[i].path)
    /\ \A i \in 1..Len(tasks) :
          tasks[i].st \in {"pending", "running", "written", "killed", "failed_replace"}
              => ~Exists(fs, tasks[i].path)

\* a partition is on disk, another flush failed in its write, and the process
\* was killed while a third flush had written only its temporary file
C6_Witness ==
    /\ ~alive
    /\ \E i, j, k \in 1..Len(tasks) :
          /\ tasks[i].st = "done" /\ Exists(fs, tasks[i].path)
          /\ tasks[j].st = "failed"
          /\ tasks[k].st = "killed"
          /\ Exists(fs, tmpname(tasks[k].path, k))

\* C7: once the with block has been left and the background worker has
\* finished every task without an I/O error, the partition files hold every
\* written batch exactly once.
C7_AllBatchesExactlyOnce ==
    (/\ w.pc = "closed" /\ alive
     /\ \A i \in 1..Len(tasks) : tasks[i].st = "done")
        => \A id \in 1..w.batch_count : Cardinality(Occurrences(id)) = 1

\* C8: when closing the writer has ended, no flush task is pending or running
\* and every written batch is in a completed partition file (unless a flush
\* task failed).
C8_CloseIsSynchronous ==
    (w.pc = "closed" /\ alive)
        => /\ Outstanding = {}
           /\ \/ \E i \in 1..Len(tasks) : failedTask(tasks, i)
              \/ \A id \in 1..w.batch_count : InSomePartition(id)

\* C9: at most one flush task of a writer is submitted and not yet finished.
C9_AtMostOneOutstandingFlush == Cardinality(Outstanding) <= 1

\* C10: the batches of a failed flush task are still held by the writer, and
\* its error has reached the caller by the time the writer is closed.
C10_FlushErrorPropagates ==
    \A i \in 1..Len(tasks) :
        failedTask(tasks, i) =>
            /\ BatchIds(tasks[i].table) \subseteq BatchIds(w.table)
            /\ w.pc = "closed" => i \in w.raised

\* the flush tasks of the current writer whose table holds the batch
TasksHolding(batch) ==
    {i \in 1..Len(tasks) :
        tasks[i].wid = w.wid /\ \E k \in 1..Len(tasks[i].table) : tasks[i].table[k] = batch}

InBuffer(batch) == \E k \in 1..Len(w.table) : w.table[k] = batch

\* C11: every written batch is whole in exactly one place, the buffer of the
\* current partition or the table of one flush task, and the path that write
\* computed for it is the path of that partition; a write call starts a
\* flush exactly when the buffer with the batch is larger than the partition
\* size.
C11_WriteReturnsPartitionPath ==
    \A c \in {w.calls[k] : k \in 1..Len(w.calls)} :
        /\ c.flushed <=> (c.size > PartitionSizeBytes)
        /\ c.ret.kind = "part"
        /\ IF InBuffer(c.batch)
           THEN TasksHolding(c.batch) = {} /\ path(w, isdir) = c.ret
           ELSE /\ Cardinality(TasksHolding(c.batch)) = 1
                /\ \A i \in TasksHolding(c.batch) : tasks[i].path = c.ret
        /\ \A f \in PartFiles :
              (f.src \in TasksHolding(c.batch)) <=>
                  (f.path = c.ret /\ \E k \in 1..Len(f.rows) : f.rows[k] = c.batch)

\* a write that filled the buffer exactly to the partition size started no
\* flush, the next one did, and both batches are in the file at the path
\* that the two calls returned
C11_Witness ==
    \E c, d \in {w.calls[k] : k \in 1..Len(w.calls)} :
        /\ ~c.flushed /\ c.size = PartitionSizeBytes
        /\ d.flushed /\ d.ret = c.ret /\ d.batch # c.batch
        /\ \E f \in PartFiles :
              /\ f.path = c.ret
              /\ \E k, l \in 1..Len(f.rows) : f.rows[k] = c.batch /\ f.rows[l] = d.batch

\* C12: every partition file of the orchestrator's writer is a file
\* {partition index}.parquet inside the per-worker table directory
\* {db_dir}/{table_name}/{run_id}/{worker_id}.
C12_PartitionsInTableDir ==
    \A f \in PartFiles :
        /\ \E cid \in RunIds : f.path.prefix = writer_dir(cid)
        /\ f.path.inDir

\* the lines of the log that hold an entry for path p, in the order in which
\* they were appended
LinesOf(p) == {i \in 1..Len(plog) : plog[i].path = p}

\* C13: loading the log retains exactly one entry per logged path, and it is
\* the entry that was appended last, whatever the run ids and worker ids of
\* the files that hold the entries.
C13_LoadKeepsMostRecent ==
    \A i \in 1..Len(plog) :
        LET p == plog[i].path
            last == CHOOSE k \in LinesOf(p) : \A j \in LinesOf(p) : j <= k
        IN {e \in load(plog) : e.path = p} = {plog[last]}

(***************************************************************************)
(* Properties of the partitioning of the path list                         *)
(***************************************************************************)
\* the slice computed for a worker
SliceOf(worker_id) == (CHOOSE x \in pt.slices : x.worker_id = worker_id).paths

\* the slices of workers 0..k-1, concatenated in worker order
ConcatSlices[k \in 0..MaxWorkers + 1] ==
    IF k = 0 THEN <<>> ELSE ConcatSlices[k - 1] \o SliceOf(k - 1)

\* the positions of the path list at which the elements of a slice stand
PositionsOf(slice) ==
    {i \in 1..Len(pt.paths) : \E j \in 1..Len(slice) : slice[j] = pt.paths[i]}

\* C14: once every worker 0..num_workers-1 has computed its slice, the slices
\* concatenated in worker order are the path list, any two of them are
\* disjoint, each is a contiguous range, and a worker whose start index is
\* not inside the list has the empty slice.
C14_PartitionCoversDisjointly ==
    ({x.worker_id : x \in pt.slices} = 0..(pt.num_workers - 1)) =>
        /\ ConcatSlices[pt.num_workers] = pt.paths
        /\ \A a, b \in pt.slices :
              a.worker_id # b.worker_id =>
                  PositionsOf(a.paths) \cap PositionsOf(b.paths) = {}
        /\ \A a \in pt.slices :
              /\ \A i, j \in PositionsOf(a.paths) :
                    \A k \in i..j : k \in PositionsOf(a.paths)
              /\ (a.worker_id * worker_num_paths(Len(pt.paths), pt.num_workers,
                                                 pt.min_per_worker)
                     >= Len(pt.paths)) => a.paths = <<>>

\* three workers have partitioned four paths with min_per_worker = 3: the
\* first has three paths, the second one, the third none
C14_Witness ==
    /\ {x.worker_id : x \in pt.slices} = 0..2
    /\ Len(pt.paths) = 4 /\ pt.min_per_worker = 3
    /\ Len(SliceOf(0)) = 3 /\ Len(SliceOf(1)) = 1 /\ SliceOf(2) = <<>>

(***************************************************************************)
(* Properties of the Table                                                 *)
(***************************************************************************)
\* C15: converting the table yields a frame with exactly one row per
\* distinct key that was put, in ascending order of the keys, whatever the
\* order of the put calls was.
C15_OneSortedRowPerKey ==
    tb.op = "to_pandas" =>
        /\ tb.out.exc = "none"
        /\ [i \in 1..Len(tb.out.rows) |-> tb.out.rows[i].key] = SortedKeys(tb.putkeys)

\* the same for the conversions that return a frame
C15_SortedWhenConverted ==
    (tb.op = "to_pandas" /\ tb.out.exc = "none") =>
        [i \in 1..Len(tb.out.rows) |-> tb.out.rows[i].key] = SortedKeys(tb.putkeys)

\* the key does not fit the index columns: a tuple of another length, a bare
\* scalar for several index columns, or named fields with other names
KeyMismatch(key, index_names) ==
    \/ key.kind = "tuple" /\ Len(key.vals) # Len(index_names)
    \/ key.kind = "scalar" /\ Len(index_names) # 1
    \/ key.kind = "dict" /\ key.names # index_names

\* C16: a put whose key does not fit the declared index columns raises an
\* error, creates no row and leaves every row as it was.
C16_KeyMismatchRejected ==
    [][\A key \in PutKeys, column_group \in PutGroups, record \in PutRecords :
          (KeyMismatch(key, tb.index_names) /\ TablePut(key, column_group, record))
              => /\ tb'.exc \in {"ValueError", "TypeError"}
                 /\ tb'.rows = tb.rows
                 /\ tb'.putkeys = tb.putkeys]_vars

\* a put was rejected for its key by a table that holds rows of both groups
C16_Witness ==
    /\ tb.op = "put" /\ tb.exc = "ValueError"
    /\ \A g \in GroupNames : tb.rows[g] # <<>>

\* C17: a put with a valid key whose group is not declared, or whose record
\* has a field outside the schema of the group, raises ValueError and leaves
\* the rows as they were.
C17_UnknownGroupOrFieldRejected ==
    [][\A key \in PutKeys, column_group \in PutGroups, record \in PutRecords :
          (/\ check_key(key, tb.index_names).exc = "none"
           /\ \/ column_group \notin GroupNames
              \/ \E f \in record :
                    \A i \in 1..Len(Columns(column_group)) : Columns(column_group)[i] # f
           /\ TablePut(key, column_group, record))
              => /\ tb'.exc = "ValueError"
                 /\ tb'.rows = tb.rows]_vars

\* the columns that the description of the combined schema lists
ExpectedColumns(t) ==
    [i \in 1..Len(t.index_names) |-> <<"_index", t.index_names[i]>>]
      \o [i \in 1..Len(t.constants.names) |-> <<t.constants.names[i], "">>]
      \o <<(<<"A", "a">>), (<<"A", "b">>), (<<"B", "c">>)>>

\* C19: the converted table has the index columns under "_index", then the
\* constant columns, then the columns of each group in declaration and
\* schema order, whatever was put.
C19_ColumnOrder ==
    tb.op = "to_pandas" =>
        /\ tb.out.exc = "none"
        /\ tb.out.columns = ExpectedColumns(tb)

\* the same for the conversions that return a frame
C19_ColumnOrderWhenConverted ==
    (tb.op = "to_pandas" /\ tb.out.exc = "none") =>
        tb.out.columns = ExpectedColumns(tb)

(***************************************************************************)
(* Properties of the tables returned by crawl                              *)
(***************************************************************************)
\* for key k every file of label l that was processed made its handler
\* raise, and a file of the other label gave a record
GroupFailedFor(k, l) ==
    /\ \E o \in cr.ran : LabelOf(o.m) = l /\ o.ix = k /\ o.hd = "raise"
    /\ \A o \in cr.ran : (LabelOf(o.m) = l /\ o.ix = k) => o.hd = "raise"
    /\ \E o \in cr.ran : LabelOf(o.m) # l /\ o.ix = k /\ o.hd = "record"

\* C18: when every file of one column group fails for a key and a file of
\* another group succeeds, the table returned by crawl has exactly one row
\* for the key, with the failed group's cells null and the other group's
\* filled, and the failure list has one failure per failed file.
C18_FailedGroupIsNull ==
    cr.pc = "returned" =>
        \A k \in Keys, l \in {"a", "b"} :
            GroupFailedFor(k, l) =>
                /\ Cardinality({r \in cr.final : r.key = k}) = 1
                /\ \A r \in cr.final :
                      r.key = k =>
                          /\ ~r.cells[l].filled
                          /\ \A l2 \in {"a", "b"} \ {l} : r.cells[l2].filled
                /\ \A o \in cr.ran :
                      (LabelOf(o.m) = l /\ o.ix = k) => Cardinality(ErrorsOf(o.m)) = 1

\* a crawl returned after the only file of group b for a key had failed and
\* a file of group a for the same key had given a record
C18_Witness ==
    /\ cr.pc = "returned"
    /\ \E k \in Keys : GroupFailedFor(k, "b")
    /\ Len(cr.errors) >= 1

(***************************************************************************)
(* Properties of the handler                                               *)
(***************************************************************************)
\* C20: when the overlap of a loaded, non-empty record with the schema is
\* below the configured threshold, the call of the handler raises, and the crawler's
\* task returns a HandlingFailure for the file and no data.
C20_LowOverlapFails ==
    (/\ hnd.pc = "processed"
     /\ hnd.loaded.kind = "record" /\ hnd.loaded.fields # {}
     /\ hnd.overlap_threshold.set
     /\ Cardinality(hnd.loaded.fields \cap hnd.schema) * hnd.overlap_threshold.den
            < hnd.overlap_threshold.num * Cardinality(hnd.schema))
        => /\ hnd.result.kind = "raise"
           /\ hnd.val.err # None
           /\ hnd.val.data = None

(***************************************************************************)
(* Properties of the PatternLUT                                            *)
(***************************************************************************)
EndsSpecial(pattern) == pattern[Len(pattern)] \in {CharClass, "*", "?"}

\* the item is filed under the suffix of the path and its pattern matches
\* the base name, or the whole path when the pattern holds a '/'
Yielded(item, fpath) ==
    /\ suffix(fpath) = IF EndsSpecial(item.pattern) THEN <<>> ELSE suffix(item.pattern)
    /\ IF \E i \in 1..Len(item.pattern) : item.pattern[i] = "/"
       THEN fnmatch(fpath, item.pattern)
       ELSE fnmatch(name(fpath), item.pattern)

\* C21: lookup yields, in the order of the items, exactly the items filed
\* under the suffix of the path whose pattern matches the query; an item whose
\* pattern ends in '*', '?' or ']' is never yielded for a path with a suffix;
\* a path that matches nothing yields nothing.
C21_LookupYieldsBucketMatches ==
    lut.pc = "looked" =>
        LET hits == {i \in 1..Len(lut.items) : Yielded(lut.items[i], lut.path)}
        IN /\ Len(lut.out) = Cardinality(hits)
           /\ \A i \in hits :
                 lut.out[Cardinality({j \in hits : j <= i})] = lut.items[i]
           /\ \A k \in 1..Len(lut.out) :
                 EndsSpecial(lut.out[k].pattern) => suffix(lut.path) = <<>>
           /\ hits = {} => lut.out = <<>>

\* the table holds a pattern with a '/' and a pattern that ends in '*': a path
\* below the directory was yielded for the first only, although its base name
\* would match neither without its directory
C21_Witness ==
    /\ lut.pc = "looked"
    /\ Len(lut.items) = 2
    /\ lut.items[1].pattern = <<"b", "*">>
    /\ lut.items[2].pattern = <<"f", "/", "*", ".", "g">>
    /\ lut.path = <<"f", "/", "a", "/", "b", ".", "g">>
    /\ lut.out = <<lut.items[2]>>

(***************************************************************************)
(* Properties of the tasks of the crawler                                  *)
(***************************************************************************)
\* the result of the task that ran on match m
ResultOf(m) == CHOOSE r \in cr.results : r.m = m

\* C22: every task calls the indexer first and the handler only after the
\* indexer returned a key; when the indexer raises, the handler is not
\* called, the task returns no data and one failure that names the indexer,
\* which the crawl records once; no task returns both data and a failure.
C22_IndexerBeforeHandler ==
    \A o \in cr.ran :
        LET r == ResultOf(o.m)
        IN /\ Len(r.calls) \in 1..2 /\ r.calls[1] = "indexer"
           /\ Len(r.calls) = 2 => (r.calls[2] = "handler" /\ o.ix \in Keys)
           /\ o.ix = "raise" =>
                 /\ r.calls = <<"indexer">>
                 /\ r.data = None
                 /\ r.err = HandlingFailure(o.m, "indexer")
                 /\ o.m \in cr.consumed => Cardinality(ErrorsOf(o.m)) = 1
           /\ ~(r.data # None /\ r.err # None)

\* the results of a task whose indexer raised and of a task whose handler gave
\* a record have both been received by the loop of crawl
C22_Witness ==
    \E o, q \in cr.ran :
        /\ o.ix = "raise" /\ o.hd = "record" /\ o.m \in cr.consumed
        /\ q.ix \in Keys /\ q.hd = "record" /\ q.m \in cr.consumed
        /\ ResultOf(q.m).data # None

\* the task of the result found no key, or its handler returned None
NoRecordTask(val) ==
    \E o \in cr.ran :
        /\ o.m = val.m
        /\ o.ix = "none" \/ (o.ix \in Keys /\ o.hd = "none")

\* C23: the result of a task whose indexer returned no key, or whose handler
\* returned None, raises counts.total by one and changes nothing else of the
\* counts, the tables and the failure list; at every point of a crawl
\* process + error <= total and error = len(errors).
C23_NoRecordCountsTotalOnly ==
    /\ [](/\ cr.counts.process + cr.counts.error <= cr.counts.total
          /\ cr.counts.error = Len(cr.errors))
    /\ [][\A val \in cr.results :
             (NoRecordTask(val) /\ Aggregate(val)) =>
                 /\ cr'.counts = [cr.counts EXCEPT !.total = @ + 1]
                 /\ cr'.tables = cr.tables
                 /\ cr'.errors = cr.errors]_vars

\* the loop has received a result without key, a result without record and a
\* record: total is 3 and process is 1
C23_Witness ==
    /\ \E o, q \in cr.ran :
          /\ o.ix = "none" /\ o.m \in cr.consumed
          /\ q.ix \in Keys /\ q.hd = "none" /\ q.m \in cr.consumed
    /\ cr.counts = [total |-> 3, process |-> 1, error |-> 0]

\* C24: once crawl has raised the max-failure error, no further match is
\* scanned and no further task is run by the pool.
C24_AbortStopsScanAndDispatch ==
    [][cr.pc = "raised" => (cr'.scanned = cr.scanned /\ cr'.ran = cr.ran)]_vars

\* the tables, the failure list and the counts of the running crawl
CrawlLocals(c) == <<c.tables, c.errors, c.counts, c.final>>

\* a step of the thread that called crawl
CallerStep ==
    \/ \E n \in 0..MaxMatches : CrawlStart(n)
    \/ \E val \in cr.results : Aggregate(val)
    \/ CrawlReturn

\* C25: the steps of the pool's threads (the scan and the tasks) leave the
\* tables, the failure list and the counts as they are; every step that
\* changes them is a step of the thread that called crawl, which makes its
\* put calls one after the other and none once it has finalized the tables.
C25_CrawlStateOwnedByCaller ==
    /\ [][(Scan \/ \E m \in 1..MaxMatches, ix \in IndexerOutcomes,
                      hd \in HandlerOutcomes : TaskRun(m, ix, hd))
             => CrawlLocals(cr') = CrawlLocals(cr)]_vars
    /\ [][CrawlLocals(cr') # CrawlLocals(cr) => CallerStep]_vars
    /\ [][cr.pc = "returned" => CrawlLocals(cr') = CrawlLocals(cr)]_vars

\* the caller has put a record while the result of a task that a pool thread
\* has run is still to be received
C25_Witness ==
    /\ cr.pc = "running" /\ cr.tables # {}
    /\ \E o \in cr.ran : o.m \notin cr.consumed /\ o.hd = "record" /\ o.ix \in Keys

(***************************************************************************)
(* Properties of the blocking flush and of the order of the partitions     *)
(***************************************************************************)
\* C26: when the final flush(blocking=True) of the orchestrator has returned,
\* no flush task of the writer is pending or running, the buffer is empty and
\* the table of every flush task that did not fail is in a completed
\* partition file.
C26_BlockingFlushDrains ==
    (eng.pc = "ended" /\ eng.status = "done" /\ alive) =>
        /\ Outstanding = {}
        /\ w.table = <<>>
        /\ \A i \in 1..Len(tasks) :
              (tasks[i].wid = w.wid /\ ~failedTask(tasks, i)) =>
                  \E f \in PartFiles : f.src = i /\ f.rows = tasks[i].table

(***************************************************************************)
(* Properties of a launch that follows an unfinished run                   *)
(***************************************************************************)
\* the launch before the current one was killed or ended with an error
AfterUnfinishedRun ==
    Len(hist) >= 1 /\ hist[Len(hist)].status \in {"none", "failed"}

Crawled == {eng.crawled[i] : i \in 1..Len(eng.crawled)}

\* C27: a launch with filter_completed that follows an unfinished run, under
\* the same or a new run id, and ends without an error of its own, has
\* crawled every input directory whose latest log entry was missing, had an
\* error rate above the threshold, or named a partition that was not on disk.
C27_ResumeCrawlsUnfinished ==
    (/\ AfterUnfinishedRun
     /\ eng.filter_completed
     /\ eng.pc = "ended" /\ eng.status # "failed")
        => eng.redo \subseteq Crawled

\* the same for a launch under a run id that was not used before, made by a
\* new process
C27_ResumeUnderNewRunId ==
    (/\ AfterUnfinishedRun
     /\ eng.filter_completed
     /\ eng.pc = "ended" /\ eng.status # "failed"
     /\ eng.newproc
     /\ \A i \in 1..Len(hist) : hist[i].collection_id # eng.collection_id)
        => eng.redo \subseteq Crawled

\* the input directories that the current launch filtered out as completed
Skipped ==
    {InputPaths[i] : i \in 1..Len(InputPaths)}
        \ {eng.filtered[i] : i \in 1..Len(eng.filtered)}

\* the file at path x is complete and holds the table crawled from directory d
HoldsRowsOf(x, d) ==
    \E f \in fs :
        /\ f.path = x /\ f.closed
        /\ \E k \in 1..Len(f.rows) : f.rows[k].src = d

\* C28: a directory that a launch filtered out as completed has every
\* partition of its retained log entry on disk, as a complete file that holds
\* the rows of the directory; an entry whose partition was never flushed does
\* not make the launch skip its directory.
C28_SkippedOnlyIfPartitionsComplete ==
    eng.filter_completed =>
        \A d \in Skipped :
            \A e \in load(plog) :
                e.path = d => \A x \in e.partitions : HoldsRowsOf(x, d)

\* after a run that was killed with both directories logged and only the
\* first partition flushed, a launch skipped the directory of the flushed
\* partition and kept the other one, whose partition is missing
C28_Witness ==
    /\ Len(hist) >= 1 /\ hist[Len(hist)].status = "none"
    /\ eng.filter_completed
    /\ Skipped # {}
    /\ \E i \in 1..Len(eng.filtered) :
          \E e \in load(plog) :
              /\ e.path = eng.filtered[i]
              /\ e.collection_id # eng.collection_id
              /\ \E x \in e.partitions : ~Exists(fs, x)

(***************************************************************************)
(* Properties of the main loop when crawl raises                           *)
(***************************************************************************)
\* the launch has built its crawler and its writer
InGenerateTables ==
    eng.pc # "none" /\ eng.status \notin {"exit_empty", "exit_worker", "exit_dry_worker"}

\* the directory whose crawl the main loop started last
LastCrawled == eng.crawled[Len(eng.crawled)]

\* C29: a log entry of the launch is appended only for a directory whose
\* crawl returned and whose table was passed to the writer, which returned
\* the partition of the entry. When crawl raises for a directory, no entry is
\* appended for it, the loop crawls no further directory, the writer is
\* flushed exactly when flush_on_error is set and the run is not a dry run,
\* and the launch ends with the crawler closed and the exception raised.
C29_LogAfterWriteAndErrorPath ==
    InGenerateTables =>
        /\ \A i \in 1..Len(plog) :
              plog[i].collection_id = eng.collection_id =>
                  /\ \E k \in 1..Len(eng.crawled) : eng.crawled[k] = plog[i].path
                  /\ \E k \in 1..Len(w.calls) :
                        /\ w.calls[k].batch.src = plog[i].path
                        /\ plog[i].partitions = {w.calls[k].ret}
        /\ eng.cur.raises =>
              /\ \A i \in 1..Len(plog) :
                    ~(plog[i].collection_id = eng.collection_id
                        /\ plog[i].path = LastCrawled)
              /\ Len(eng.crawled) = eng.idx
              /\ eng.pc \in {"except_flush", "ended", "killed"}
              /\ eng.flushed_on_error <=> (eng.flush_on_error /\ ~eng.dry_run)
              /\ eng.flushed_on_error => w.op = "flush"
              /\ eng.pc = "ended" => (eng.status = "failed" /\ eng.crawler_closed)

\* with flush_on_error the crawl of the second directory raised: the table of
\* the first directory was flushed to its partition, which is the one logged,
\* and the launch ended with the error
C29_Witness ==
    /\ eng.pc = "ended" /\ eng.status = "failed" /\ eng.cur.raises
    /\ eng.flush_on_error /\ eng.flushed_on_error
    /\ Len(eng.crawled) = 2 /\ eng.logged = 1
    /\ \E i \in 1..Len(plog) :
          /\ plog[i].collection_id = eng.collection_id
          /\ \A x \in plog[i].partitions : HoldsRowsOf(x, plog[i].path)

\* the flush tasks of the writer, in the order of their submission
OwnTasks == {i \in 1..Len(tasks) : tasks[i].wid = w.wid}

\* the partition indices of the partition files on disk
VisibleParts(files) == {f.path.n : f \in {g \in files : g.path.kind = "part"}}

\* C30: the k-th flush task of a writer has partition index k-1 and the
\* partition counter is the number of tasks, so no two tasks share a path; a
\* task has started only when every earlier one has finished; a partition
\* file that appears has a larger index than every file on disk; a flush
\* with an empty buffer submits no task, writes no file and leaves the
\* partition counter as it is.
C30_PartitionIndicesInOrder ==
    /\ [](/\ \A i \in OwnTasks :
                tasks[i].path.n = Cardinality({j \in OwnTasks : j < i})
          /\ w.part = Cardinality(OwnTasks)
          /\ \A i, j \in OwnTasks : i # j => tasks[i].path # tasks[j].path
          /\ \A i, j \in OwnTasks :
                (i < j /\ (running(tasks, j) \/ finished(tasks, j)))
                    => finished(tasks, i))
    /\ [][\A n \in VisibleParts(fs') \ VisibleParts(fs) :
             \A k \in VisibleParts(fs) : k < n]_vars
    /\ [][\A b \in BOOLEAN :
             (w.table = <<>> /\ Flush(b)) =>
                 (tasks' = tasks /\ fs' = fs /\ w'.part = w.part)]_vars

\* three flushes have written the partitions 0, 1 and 2, and a further flush
\* found the buffer empty
C30_Witness ==
    /\ Len(tasks) = 3
    /\ \A i \in 1..3 : tasks[i].st = "done" /\ Exists(fs, tasks[i].path)
    /\ VisibleParts(fs) = {0, 1, 2}
    /\ w.op = "flush" /\ w.table = <<>> /\ w.pc = "idle" /\ w.future = 3
    /\ w.batch_count = 3

(***************************************************************************)
(* Properties of successive put calls                                      *)
(***************************************************************************)
\* the cell of column i of the group in the row of the key, null without a row
CellOf(rows, key, i) ==
    IF \E n \in 1..Len(rows) : rows[n].key = key
    THEN (CHOOSE r \in {rows[n] : n \in 1..Len(rows)} : r.key = key).row[i]
    ELSE "null"

\* C31: a put with a valid key and a declared group is not an error, leaves
\* the rows of the other groups and of the other keys as they were, and in
\* the row of its key changes only the fields that its record supplies.
C31_PutAccumulatesFields ==
    [][\A key \in PutKeys, column_group \in GroupNames, record \in PutRecords :
          (/\ check_key(key, tb.index_names).exc = "none"
           /\ TablePut(key, column_group, record))
              => LET k == check_key(key, tb.index_names).key
                 IN /\ tb'.exc = "none"
                    /\ \A g \in GroupNames \ {column_group} : tb'.rows[g] = tb.rows[g]
                    /\ \A n \in 1..Len(tb.rows[column_group]) :
                          tb.rows[column_group][n].key # k =>
                              tb'.rows[column_group][n] = tb.rows[column_group][n]
                    /\ \A i \in 1..Len(Columns(column_group)) :
                          Columns(column_group)[i] \notin record =>
                              CellOf(tb'.rows[column_group], k, i)
                                  = CellOf(tb.rows[column_group], k, i)]_vars

(***************************************************************************)
(* Properties of successive crawls of one Crawler                          *)
(***************************************************************************)
\* the results of the current imap_unordered call that the loop has received
Received(c) == {val \in c.results : val.m \in c.consumed}

\* C32: from the entry of every crawl(d) on, whatever the Crawler crawled
\* before and however that ended, the root of the indexers and the _dir
\* constant of the tables are d, the tasks that have run are tasks of matches
\* scanned under d, and the tables, the failure list and the counts hold what
\* the results received from those tasks put there and nothing else.
C32_CrawlDerivesFromItsDirectoryOnly ==
    cr.pc \in {"running", "returned", "raised"} =>
        /\ cr.root = cr.dirpath
        /\ cr.table_dir = cr.dirpath
        /\ \A val \in cr.results : val.m \in 1..cr.scanned
        /\ cr.consumed \subseteq 1..cr.n
        /\ \A c \in cr.tables :
              \E val \in Received(cr) :
                 /\ val.data # None
                 /\ c = [key |-> val.data.key, label |-> LabelOf(val.m),
                         val |-> val.data.record]
        /\ \A i \in 1..Len(cr.errors) :
              \E val \in Received(cr) : val.err = cr.errors[i]
        /\ cr.counts.total = Cardinality(cr.consumed)
        /\ cr.counts.process = Cardinality({val \in Received(cr) : val.data # None})
        /\ cr.counts.error = Cardinality({val \in Received(cr) : val.err # None})
        /\ cr.pc = "returned" => cr.final = as_table(cr.tables)

\* a second crawl, of another directory, has returned rows while tasks of the
\* first crawl, which raised, are still left to the pool
C32_Witness ==
    /\ cr.crawls = 2 /\ cr.pc = "returned"
    /\ cr.dirpath = InputPaths[2]
    /\ cr.final # {}
    /\ cr.stale > 0

(***************************************************************************)
(* Properties of the schema of the crawler's tables                        *)
(***************************************************************************)
\* C33: once the tables of a crawl are built, the schema of the table holds,
\* under the label of every configured handler, every field of that
\* handler's schema, also when two handlers carry the same label, and no put
\* of a record returned by a configured handler is rejected.
C33_PutAcceptsHandlerRecords ==
    hnd.pc \in {"crawling", "raised"} =>
        /\ \A i \in 1..Len(hnd.handlers) :
              /\ hnd.handlers[i].label \in DOMAIN hnd.schema
              /\ hnd.handlers[i].schema \subseteq hnd.schema[hnd.handlers[i].label]
        /\ hnd.exc = "none"

(***************************************************************************)
(* Properties of the order in which results arrive                         *)
(***************************************************************************)
\* the table that the results of the tasks 1..k give when they are put in
\* the order of the scan
RECURSIVE PutsInScanOrder(_, _)
PutsInScanOrder(ran, k) ==
    IF k = 0 THEN {}
    ELSE LET o == CHOOSE q \in ran : q.m = k
             val == process_one(o.m, o.ix, o.hd)
             before == PutsInScanOrder(ran, k - 1)
         IN IF val.data # None
            THEN put(before, val.data.key, val.data.record, LabelOf(k))
            ELSE before

\* C34: the tables that crawl returns are determined by what the tasks
\* returned, not by the order in which the loop received the results: they
\* are the tables that the same results give in the order of the scan.
C34_TablesIndependentOfArrivalOrder ==
    cr.pc = "returned" => cr.final = as_table(PutsInScanOrder(cr.ran, cr.n))

(***************************************************************************)
(* Properties of the suffix buckets                                        *)
(***************************************************************************)
\* the glob match applied to every registered item, in the order of the
\* registration
MatchAll(items, fpath) ==
    LET hit(it) == fnmatch(query(fpath, match_whole(it.pattern)), it.pattern)
        sel == SelectSeq(items, hit)
    IN [i \in 1..Len(sel) |-> [pattern |-> sel[i].pattern, val |-> sel[i].val]]

\* C35: lookup yields, for every list of registered patterns and every path,
\* the same matches in the same order as the glob match applied to every
\* registered pattern.
C35_BucketsAreAnOptimisation ==
    lut.pc = "looked" => lut.out = MatchAll(lut.items, lut.path)

(***************************************************************************)
(* Properties of one ProcessedLog object                                   *)
(***************************************************************************)
\* C36: filter_paths answers from every entry of the log that the object has
\* appended before the call, whether or not the object had loaded the log
\* before it appended them: the answer is the one that the log as it is on
\* disk at the call gives.
C36_FilterSeesOwnWrites ==
    [][\A thr \in Thresholds :
          LogFilter(thr) =>
              logobj'.out = filter_paths(load(plog), cache, fs, InputPaths, thr)]_vars

(***************************************************************************)
(* Properties of a dry run                                                 *)
(***************************************************************************)
\* what launch and its writers persist: the run-log directory with the paths
\* lists and the worker markers, the partition files and their directories,
\* the flush tasks, the processing log
Persisted == <<rundir, fs, isdir, tasks, plog>>

\* C37: no step of a dry run, its launch included, changes what is
\* persisted, also when its crawl raises and flush_on_error is set; a dry run
\* crawls at most one directory and logs none; and a dry run of a worker
\* other than worker 0 ends without having initialized the tables.
C37_DryRunPersistsNothing ==
    /\ [][eng'.dry_run => Persisted' = Persisted]_vars
    /\ [](eng.dry_run => (Len(eng.crawled) <= 1 /\ eng.logged = 0))
    /\ []((eng.dry_run /\ eng.worker_id # 0)
             => (eng.pc = "ended" /\ ~eng.tables_initialized /\ eng.crawled = <<>>))

\* a dry run with flush_on_error whose crawl raised has ended, after an
\* earlier run has left log entries and partitions
C37_Witness ==
    /\ eng.dry_run /\ eng.flush_on_error
    /\ eng.pc = "ended" /\ eng.status = "failed"
    /\ Len(eng.crawled) = 1
    /\ plog # <<>>

(***************************************************************************)
(* Properties of Schema.coerce                                             *)
(***************************************************************************)
\* the input has a column of this name
Has(frame, n) == \E j \in 1..Len(frame) : frame[j].name = n

\* the result r of coercing frame to schema has the schema's columns in the
\* schema's order and with the schema's dtypes, and a null in every column
\* that frame does not have
Coerced(schema, frame, r) ==
    /\ r.exc = "none"
    /\ Len(r.df) = Len(schema)
    /\ \A i \in 1..Len(schema) :
          /\ r.df[i].name = schema[i].name
          /\ r.df[i].dtype = schema[i].dtype
          /\ ~Has(frame, schema[i].name) => r.df[i].cell = "null"

NullsFit(schema, frame) ==
    \A i \in 1..Len(schema) :
        schema[i].dtype \notin Nullable =>
            \E j \in 1..Len(frame) :
                frame[j].name = schema[i].name /\ frame[j].cell = "v"

==============================================================================
